---- MODULE Spec2Model ----
(***************************************************************************)
(* Worker-side KV-cache subsystem of tLLM: RequestsCache, CacheManager,    *)
(* build_forward_cache (torch and mlx variants), build_mlx_mask and the    *)
(* Forward step of LlamaModel / MLXLlamaModel.                             *)
(*                                                                         *)
(* Tensors are modelled by their leading (token) dimension: a tensor is a  *)
(* sequence of rows, None is the empty sequence.  Layer indices are        *)
(* 0-based as in the source; a layer list is a TLA+ sequence, so layer     *)
(* layer_idx is element layer_idx + 1.                                     *)
(***************************************************************************)
EXTENDS Integers, Sequences, FiniteSets, TLC

\* ---------------------------------------------------------------- bounds
NumLayers == 2          \* layers owned by the worker (num_decoder_layers)
MaxSeg    == 2          \* largest segment length of one request in a step
MaxLen    == 3          \* largest cached length a request may reach
MaxTime   == 3          \* the clock stops advancing here
MaxAlive  == 1          \* max_alive_time is drawn from 0..MaxAlive

UUIDS == {"r1", "r2"}

NoList == <<>>          \* no live per-layer cache list for a request id

VARIABLES
    max_alive_time,   \* CacheManager.max_alive_time
    owns_final,       \* config.decoder_end_layer_idx == config.num_hidden_layers
    now,              \* time.time()
    cache_dict,       \* CacheManager.cache_dict: uuid -> [cache, ts, seq_len]
    kv_heap,          \* the List[KVCache] objects, one live list per request id
    pc,               \* position of the Forward step / of the driver
    seq_input,        \* SeqInput of the in-flight step: [uuid_list, seq_len_list]
    request_cache,    \* RequestsCache.cache_dict of the step: uuid -> [cache, seq_len]
    position_ids,     \* AttentionData.position_ids (torch build_forward_cache)
    attn_mask,        \* AttentionData.attn_mask (mlx build_forward_cache)
    layer_idx,        \* next layer Decoder.forward will run
    kv_all,           \* what RequestsCache.update returned to the attention last
    wb_idx,           \* index into the write-back loop of forward
    output,           \* hidden states returned by the last completed Forward
    total,            \* history: sum of segment lengths since a request's prefill
    stale,            \* history: requests of the step whose entry was over age at its start
    call,             \* arguments of a direct call of RequestsCache.update
    ret,              \* what the last direct call did and returned
    pkv_dict          \* cache_dict of the CacheManager of models/cache.py

VARIABLES
    mgr,              \* which WebsocketManager class is running: "network" or "websocket"
    client_size,      \* WebsocketManager.client_size
    clients,          \* WebsocketManager.clients: client_id -> ClientData
    client_info,      \* WebsocketManager.client_info: per rank <<start_idx, end_idx, count>>
    connect_clients,  \* WebsocketManager.connect_clients: the ClientData of the path
    stub_list,        \* ClientRPCManager.stub_list: the host each stub's channel targets
    send_cfg          \* the running (or last) call of send_config: its frame

\* the coordinator's state
coordVars == <<mgr, client_size, clients, client_info, connect_clients, stub_list,
               send_cfg>>

\* no coordinator object exists in a worker process
NoCoordinator ==
    /\ mgr = "none"
    /\ client_size = 0
    /\ clients = <<>>
    /\ client_info = <<>>
    /\ connect_clients = <<>>
    /\ stub_list = <<>>
    /\ send_cfg = <<>>

VARIABLES
    is_running,           \* HTTPClient.is_running
    max_retry_attempts,   \* HTTPClient.max_retry_attempts
    ping_interval,        \* HTTPClient.ping_interval
    retry_delay,          \* HTTPClient.retry_delay
    hb_pc,                \* position of maintain_connection
    retry_count,          \* retry_count of maintain_connection
    hb_trail              \* history: attempts and sleeps since the loop's last ping

\* the worker's HTTP client
clientVars == <<is_running, max_retry_attempts, ping_interval, retry_delay,
                hb_pc, retry_count, hb_trail>>

\* no HTTPClient object exists
NoClient ==
    /\ is_running = FALSE
    /\ max_retry_attempts = 0
    /\ ping_interval = 0
    /\ retry_delay = 0
    /\ hb_pc = "none"
    /\ retry_count = 0
    /\ hb_trail = <<>>

VARIABLES
    fw_pc,            \* position of RPCManager.forward
    forward_future,   \* first future returned by pending_requests.add_request
    status_future,    \* second future returned by pending_requests.add_request
    waited,           \* time the running asyncio.wait_for has waited
    fw_output,        \* deserialize_tensor(output), once evaluated
    fw_ret            \* how the last call of forward ended

\* the coordinator's RPCManager
rpcVars == <<fw_pc, forward_future, status_future, waited, fw_output, fw_ret>>

\* no RPCManager object exists
NoRPC ==
    /\ fw_pc = "none"
    /\ forward_future = <<>>
    /\ status_future = <<>>
    /\ waited = 0
    /\ fw_output = <<>>
    /\ fw_ret = <<>>

VARIABLES
    req               \* a SequenceRequestData object: its fields

\* no SequenceRequestData object exists
NoRequest == req = <<>>

VARIABLES
    pending_requests, \* PendingRequests: key -> the forward call whose futures it holds
    in_flight         \* the forward calls of the coordinator, one record per call

\* the coordinator's dispatched steps
pendVars == <<pending_requests, in_flight>>

\* no step has been dispatched
NoPending == pending_requests = <<>> /\ in_flight = <<>>

\* what lives outside the model worker's Forward step
linkVars == <<coordVars, clientVars, rpcVars, req, pendVars>>

NoLink == NoCoordinator /\ NoClient /\ NoRPC /\ NoRequest /\ NoPending

vars == <<max_alive_time, owns_final, now, cache_dict, kv_heap, pc, seq_input,
          request_cache, position_ids, attn_mask, layer_idx, kv_all, wb_idx,
          output, total, stale, call, ret, pkv_dict, linkVars>>

\* what a Forward step never touches
otherVars == <<call, ret, pkv_dict, linkVars>>

\* ------------------------------------------------------------ sequences
Min(a, b) == IF a < b THEN a ELSE b

Max(a, b) == IF a > b THEN a ELSE b

\* tensor[start:end] on the leading dimension, with Python's clamping
Slice(t, start, end) == SubSeq(t, Min(start, Len(t)) + 1, Min(end, Len(t)))

RECURSIVE SumSeq(_)
SumSeq(s) == IF s = <<>> THEN 0 ELSE Head(s) + SumSeq(Tail(s))

\* cat_func(tensors): concatenation along the leading dimension
RECURSIVE cat_func(_)
cat_func(tensors) ==
    IF tensors = <<>> THEN <<>> ELSE Head(tensors) \o cat_func(Tail(tensors))

Range(s) == {s[i] : i \in 1..Len(s)}

\* ------------------------------------------------------------- KVCache
\* KVCache(): key_states = value_states = None
KVCache == [key_states |-> <<>>, value_states |-> <<>>]

\* KVCache.__len__
KVLen(kv) == IF kv.key_states = <<>> THEN 0 ELSE Len(kv.key_states)

\* [KVCache() for _ in range(self.num_layers)]
NewLayerList == [l \in 1..NumLayers |-> KVCache]

\* -------------------------------------------------------- RequestsCache
\* RequestsCache.add: a None layer_cache_list allocates a fresh list for uuid,
\* otherwise the entry shares the list object it is given.
add(rc, heap, uuid, seq_len, layer_cache_list) ==
    [rc   |-> [u \in DOMAIN rc \cup {uuid} |->
                 IF u = uuid THEN [cache |-> uuid, seq_len |-> seq_len] ELSE rc[u]],
     heap |-> IF layer_cache_list = "None"
              THEN [heap EXCEPT ![uuid] = NewLayerList]
              ELSE heap]

\* RequestsCache.get_seq_len
get_seq_len(rc, uuid) == rc[uuid].seq_len

\* RequestsCache.get_kv_cache
get_kv_cache(rc, heap, uuid) == heap[rc[uuid].cache]

\* get_cache_seq_len answering with the step's segment length
get_cache_seq_len_segment(rc, heap, uuid, l) == rc[uuid].seq_len

\* RequestsCache.get_cache_seq_len (layer_idx defaults to 0)
get_cache_seq_len(rc, heap, uuid, l) == KVLen(get_kv_cache(rc, heap, uuid)[l + 1])

\* update_body with the append lost: the new slice replaces the cached rows
update_body_overwrite(acc, rc, key_states, value_states, uuid, l) ==
    IF uuid \notin DOMAIN rc
    THEN [acc EXCEPT !.raised = TRUE]
    ELSE
      LET ref      == rc[uuid].cache
          interval == get_seq_len(rc, uuid)
          end      == acc.start + interval
          new_kv   == [key_states   |-> Slice(key_states, acc.start, end),
                       value_states |-> Slice(value_states, acc.start, end)]
      IN [heap      |-> [acc.heap EXCEPT ![ref][l + 1] = new_kv],
          start     |-> end,
          key_lst   |-> Append(acc.key_lst, new_kv.key_states),
          value_lst |-> Append(acc.value_lst, new_kv.value_states),
          raised    |-> FALSE]

\* update_body that forgets "start = end": every request is cut from row 0
update_body_no_advance(acc, rc, key_states, value_states, uuid, l) ==
    IF uuid \notin DOMAIN rc
    THEN [acc EXCEPT !.raised = TRUE]
    ELSE
      LET ref      == rc[uuid].cache
          kv_cache == acc.heap[ref][l + 1]
          end      == acc.start + get_seq_len(rc, uuid)
          new_kv   == [key_states   |-> kv_cache.key_states
                                          \o Slice(key_states, acc.start, end),
                       value_states |-> kv_cache.value_states
                                          \o Slice(value_states, acc.start, end)]
      IN [heap      |-> [acc.heap EXCEPT ![ref][l + 1] = new_kv],
          start     |-> acc.start,
          key_lst   |-> Append(acc.key_lst, new_kv.key_states),
          value_lst |-> Append(acc.value_lst, new_kv.value_states),
          raised    |-> FALSE]

\* One iteration of the loop of RequestsCache.update; acc carries the loop's
\* locals.  An unregistered uuid raises KeyError and the loop stops there.
update_body(acc, rc, key_states, value_states, uuid, l) ==
    IF uuid \notin DOMAIN rc
    THEN [acc EXCEPT !.raised = TRUE]
    ELSE
      LET ref      == rc[uuid].cache
          kv_cache == acc.heap[ref][l + 1]
          interval == get_seq_len(rc, uuid)
          end      == acc.start + interval
          cur_key  == Slice(key_states, acc.start, end)
          cur_val  == Slice(value_states, acc.start, end)
          new_kv   == IF kv_cache.key_states = <<>>
                      THEN [key_states |-> cur_key, value_states |-> cur_val]
                      ELSE [key_states   |-> cat_func(<<kv_cache.key_states, cur_key>>),
                            value_states |-> cat_func(<<kv_cache.value_states, cur_val>>)]
      IN [heap      |-> [acc.heap EXCEPT ![ref][l + 1] = new_kv],
          start     |-> end,
          key_lst   |-> Append(acc.key_lst, new_kv.key_states),
          value_lst |-> Append(acc.value_lst, new_kv.value_states),
          raised    |-> FALSE]

RECURSIVE update_loop(_, _, _, _, _, _)
update_loop(acc, rc, key_states, value_states, uuid_list, l) ==
    IF uuid_list = <<>> \/ acc.raised
    THEN acc
    ELSE update_loop(update_body(acc, rc, key_states, value_states, Head(uuid_list), l),
                     rc, key_states, value_states, Tail(uuid_list), l)

\* RequestsCache.update: the mutated lists, whether it raised, and the packed
\* (K, V) it returns.  torch.cat / mx.concat of an empty list raises, so an
\* empty uuid_list raises at the return statement.
update(heap, rc, key_states, value_states, uuid_list, l) ==
    LET acc == update_loop([heap |-> heap, start |-> 0, key_lst |-> <<>>,
                            value_lst |-> <<>>, raised |-> FALSE],
                           rc, key_states, value_states, uuid_list, l)
        raised == acc.raised \/ acc.key_lst = <<>>
    IN [heap   |-> acc.heap,
        raised |-> raised,
        key    |-> IF raised THEN <<>> ELSE cat_func(acc.key_lst),
        value  |-> IF raised THEN <<>> ELSE cat_func(acc.value_lst)]

\* --------------------------------------------------------- CacheManager
\* CacheManager.get
get(cd, key) == [cache |-> cd[key].cache, seq_len |-> cd[key].seq_len]

\* CacheManager.set: the only writer of "ts"
set(cd, key, value, seq_len, t) ==
    [k \in DOMAIN cd \cup {key} |->
        IF k = key THEN [cache |-> value, ts |-> t, seq_len |-> seq_len] ELSE cd[k]]

\* CacheManager.delete (dict.pop of a missing key raises KeyError: the callers
\* below guard on membership)
delete(cd, key) == [k \in DOMAIN cd \ {key} |-> cd[k]]

\* CacheManager.clear
clear(cd) == [k \in {} |-> cd[k]]

\* check_alive that also drops an entry whose age equals max_alive_time
check_alive_at_age(cd, t, alive) ==
    [k \in {x \in DOMAIN cd : ~(t - cd[x].ts >= alive)} |-> cd[k]]

\* CacheManager.check_alive at time t with the manager's max_alive_time
check_alive(cd, t, alive) ==
    [k \in {x \in DOMAIN cd : ~(t - cd[x].ts > alive)} |-> cd[k]]

\* arange that starts counting at 1
arange_from_one(n) == [i \in 1..n |-> i]

\* ------------------------------------------------- build_forward_cache
\* torch.arange(q_len)
arange(n) == [i \in 1..n |-> i - 1]

\* One iteration of the loop of build_forward_cache (torch): acc carries the
\* RequestsCache under construction, the lists and position_ids_list.
build_body(acc, cd, uuid, q_len) ==
    LET hit    == uuid \in DOMAIN cd
        got    == get(cd, uuid)
        added  == add(acc.rc, acc.heap, uuid, q_len, IF hit THEN got.cache ELSE "None")
    IN [rc       |-> added.rc,
        heap     |-> added.heap,
        position_ids_list |-> Append(acc.position_ids_list,
                                IF hit THEN <<got.seq_len>> ELSE arange(q_len)),
        q_len_list |-> Append(acc.q_len_list, q_len),
        k_len_list |-> Append(acc.k_len_list,
                                IF hit THEN got.seq_len + q_len ELSE q_len)]

RECURSIVE build_loop(_, _, _, _)
build_loop(acc, cd, uuid_list, seq_len_list) ==
    IF uuid_list = <<>> \/ seq_len_list = <<>>
    THEN acc
    ELSE build_loop(build_body(acc, cd, Head(uuid_list), Head(seq_len_list)),
                    cd, Tail(uuid_list), Tail(seq_len_list))

\* build_forward_cache of models/llama.py: the step's RequestsCache and the
\* packed position_ids (torch.cat of position_ids_list)
build_forward_cache(si, cd, heap) ==
    LET acc == build_loop([rc |-> [u \in {} |-> 0], heap |-> heap,
                           position_ids_list |-> <<>>, q_len_list |-> <<>>,
                           k_len_list |-> <<>>],
                          cd, si.uuid_list, si.seq_len_list)
    IN [request_cache |-> acc.rc,
        heap          |-> acc.heap,
        position_ids  |-> cat_func(acc.position_ids_list),
        q_len_list    |-> acc.q_len_list,
        k_len_list    |-> acc.k_len_list]

\* ------------------------------------------------------ build_mlx_mask
\* the two values of final_mask: 0 (attend) and -inf (masked)
Zero == "0"

NegInf == "-inf"

\* block_mask without the lower-triangular cut
block_mask_full(L, S) == [i \in 1..L |-> [j \in 1..S |-> TRUE]]

\* block_mask that cuts the triangle whatever L is
block_mask_always_tril(L, S) == [i \in 1..L |-> [j \in 1..S |-> j <= i]]

\* mx.tril(mx.ones((L, S)), k=0) if L > 1 else mx.ones((L, S)); rows and columns
\* are 1-based here, entry TRUE where the source holds True
block_mask(L, S) ==
    [i \in 1..L |-> [j \in 1..S |-> IF L > 1 THEN j <= i ELSE TRUE]]

\* the loop that pastes each block into combined_mask at (l_index, r_index)
RECURSIVE paste_loop(_, _, _, _)
paste_loop(combined, mask_list, l_index, r_index) ==
    IF mask_list = <<>>
    THEN combined
    ELSE
      LET mask == Head(mask_list)
          L    == Len(mask)
          S    == IF L = 0 THEN 0 ELSE Len(mask[1])
          next == [i \in DOMAIN combined |-> [j \in DOMAIN combined[i] |->
                     IF /\ l_index < i /\ i <= l_index + L
                        /\ r_index < j /\ j <= r_index + S
                     THEN mask[i - l_index][j - r_index]
                     ELSE combined[i][j]]]
      IN paste_loop(next, Tail(mask_list), l_index + L, r_index + S)

\* build_mlx_mask: 0 where attention is allowed, -inf elsewhere
build_mlx_mask(seq_len_list, total_L, total_S) ==
    LET mask_list == [b \in DOMAIN seq_len_list |->
                        block_mask(seq_len_list[b][1], seq_len_list[b][2])]
        zeros     == [i \in 1..total_L |-> [j \in 1..total_S |-> FALSE]]
        combined  == paste_loop(zeros, mask_list, 0, 0)
    IN [i \in 1..total_L |-> [j \in 1..total_S |->
           IF combined[i][j] THEN Zero ELSE NegInf]]

\* One iteration of the loop of build_forward_cache (mlx)
mlx_build_body(acc, cd, uuid, q_len) ==
    LET hit   == uuid \in DOMAIN cd
        got   == get(cd, uuid)
        k_len == IF hit THEN got.seq_len + q_len ELSE q_len
    IN [actual_seq_len_list |-> Append(acc.actual_seq_len_list, <<q_len, k_len>>),
        L |-> acc.L + q_len,
        S |-> acc.S + k_len]

RECURSIVE mlx_build_loop(_, _, _, _)
mlx_build_loop(acc, cd, uuid_list, seq_len_list) ==
    IF uuid_list = <<>> \/ seq_len_list = <<>>
    THEN acc
    ELSE mlx_build_loop(mlx_build_body(acc, cd, Head(uuid_list), Head(seq_len_list)),
                        cd, Tail(uuid_list), Tail(seq_len_list))

\* build_forward_cache of models/mlx_helper.py: the attention mask of the step
mlx_build_forward_cache(si, cd) ==
    LET acc == mlx_build_loop([actual_seq_len_list |-> <<>>, L |-> 0, S |-> 0],
                              cd, si.uuid_list, si.seq_len_list)
    IN [actual_seq_len_list |-> acc.actual_seq_len_list,
        attn_mask |-> build_mlx_mask(acc.actual_seq_len_list, acc.L, acc.S)]

\* MyLlamaSdpaAttention.forward: the is_causal argument it hands to
\* scaled_dot_product_attention (self.is_causal is True)
sdpa_is_causal(q_len) == TRUE /\ q_len > 1

\* the keys scaled_dot_product_attention lets each of the L query rows see among
\* the S keys: a lower triangle aligned top-left when is_causal, all otherwise
sdpa_allowed(L, S, is_causal) ==
    [i \in 1..L |-> [j \in 1..S |-> IF is_causal THEN j <= i ELSE TRUE]]

\* ------------------------------------------------------------- Forward
\* Packed hidden states of a step: one row per token, row i is named i.  Every
\* layer maps row i of its input to row i of its output.
hidden_rows(si) == [i \in 1..SumSeq(si.seq_len_list) |-> i]

\* The K and V rows the attention of layer l projects from the packed hidden
\* states: one row per hidden row.  The numeric content of a projected row is
\* not modelled in a Forward step: a row is tagged with its tensor and layer.
key_rows(hidden, l) == [i \in DOMAIN hidden |-> <<"k", l>>]

value_rows(hidden, l) == [i \in DOMAIN hidden |-> <<"v", l>>]

\* KV cache update of the attention sublayer of layer l: one call of
\* RequestsCache.update with the step's request ids
self_attn_update(heap, rc, si, l) ==
    update(heap, rc, key_rows(hidden_rows(si), l), value_rows(hidden_rows(si), l),
           si.uuid_list, l)

\* decoder_layers with the last owned layer left out
decoder_layers_short == [i \in 1..(NumLayers - 1) |-> i - 1]

\* The layers Decoder.forward runs, in list order
decoder_layers == [i \in 1..NumLayers |-> i - 1]

\* get_last_hidden_states: torch.split by seq_len_list, x[-1:] of each, torch.cat
RECURSIVE last_rows(_, _, _)
last_rows(hidden, seq_len_list, start) ==
    IF seq_len_list = <<>>
    THEN <<>>
    ELSE LET end == start + Head(seq_len_list)
             x   == Slice(hidden, start, end)
         IN Slice(x, Max(Len(x) - 1, 0), Len(x))
            \o last_rows(hidden, Tail(seq_len_list), end)

\* get_last_hidden_states taking x[:1], the first row of each segment
RECURSIVE first_rows(_, _, _)
first_rows(hidden, seq_len_list, start) ==
    IF seq_len_list = <<>>
    THEN <<>>
    ELSE LET end == start + Head(seq_len_list)
             x   == Slice(hidden, start, end)
         IN Slice(x, 0, 1) \o first_rows(hidden, Tail(seq_len_list), end)

get_first_hidden_states(hidden, seq_len_list) == first_rows(hidden, seq_len_list, 0)

get_last_hidden_states(hidden, seq_len_list) == last_rows(hidden, seq_len_list, 0)

\* Python drops a List[KVCache] once neither the manager nor the step's
\* RequestsCache refers to it
collect(heap, cd, rc) ==
    [u \in UUIDS |->
        IF \/ \E k \in DOMAIN cd : cd[k].cache = u
           \/ \E k \in DOMAIN rc : rc[k].cache = u
        THEN heap[u] ELSE NoList]

NoInput == [uuid_list |-> <<>>, seq_len_list |-> <<>>]

EmptyDict == [u \in {} |-> 0]

\* The batches a step may carry: distinct request ids, each with a segment of
\* 1..MaxSeg rows
InjectiveSeqs(S) ==
    UNION {{q \in [1..n -> S] : \A i, j \in 1..n : i # j => q[i] # q[j]} :
             n \in 1..Cardinality(S)}

Batches ==
    UNION {{[uuid_list |-> ul, seq_len_list |-> sl] :
              sl \in [1..Len(ul) -> 1..MaxSeg]} : ul \in InjectiveSeqs(UUIDS)}

\* length of the request's cache as the manager records it (0 when absent)
stored_len(cd, u) == IF u \in DOMAIN cd THEN cd[u].seq_len ELSE 0

Idle == pc = "idle"

\* LlamaModel.forward / MLXLlamaModel.__call__, first statement:
\* build_forward_cache
ForwardBuild ==
    /\ pc = "idle"
    /\ \E si \in Batches :
         /\ \A i \in DOMAIN si.uuid_list :
               stored_len(cache_dict, si.uuid_list[i]) + si.seq_len_list[i] <= MaxLen
         /\ LET b == build_forward_cache(si, cache_dict, kv_heap)
                m == mlx_build_forward_cache(si, cache_dict)
            IN /\ seq_input' = si
               /\ request_cache' = b.request_cache
               /\ kv_heap' = b.heap
               /\ position_ids' = b.position_ids
               /\ attn_mask' = m.attn_mask
               /\ total' = [u \in UUIDS |->
                              IF \E i \in DOMAIN si.uuid_list : si.uuid_list[i] = u
                              THEN (IF u \in DOMAIN cache_dict THEN total[u] ELSE 0)
                                   + SumSeq([i \in DOMAIN si.uuid_list |->
                                               IF si.uuid_list[i] = u
                                               THEN si.seq_len_list[i] ELSE 0])
                              ELSE total[u]]
               /\ stale' = {u \in Range(si.uuid_list) :
                              /\ u \in DOMAIN cache_dict
                              /\ now - cache_dict[u].ts > max_alive_time}
    /\ layer_idx' = 1
    /\ pc' = "layers"
    /\ output' = <<>>
    /\ UNCHANGED <<max_alive_time, owns_final, now, cache_dict, kv_all, wb_idx, otherVars>>

\* Decoder.forward: one iteration of "for layer in self.layers"
LayerStep ==
    /\ pc = "layers"
    /\ layer_idx <= Len(decoder_layers)
    /\ LET r == self_attn_update(kv_heap, request_cache, seq_input,
                                 decoder_layers[layer_idx])
       IN /\ kv_heap' = r.heap
          /\ kv_all' = [key |-> r.key, value |-> r.value]
    /\ layer_idx' = layer_idx + 1
    /\ UNCHANGED <<max_alive_time, owns_final, now, cache_dict, pc, seq_input,
                   request_cache, position_ids, attn_mask, wb_idx, output, total,
                   stale, otherVars>>

\* Decoder.forward returns; forward enters its write-back loop
LayersDone ==
    /\ pc = "layers"
    /\ layer_idx > Len(decoder_layers)
    /\ pc' = "set"
    /\ wb_idx' = 1
    /\ kv_all' = <<>>
    /\ UNCHANGED <<max_alive_time, owns_final, now, cache_dict, kv_heap, seq_input,
                   request_cache, position_ids, attn_mask, layer_idx, output, total,
                   stale, otherVars>>

\* forward, write-back loop: self.cache_manager.set(uuid, ..., ...)
WriteBackSet ==
    /\ pc = "set"
    /\ LET uuid == seq_input.uuid_list[wb_idx]
       IN cache_dict' = set(cache_dict, uuid, request_cache[uuid].cache,
                            get_cache_seq_len(request_cache, kv_heap, uuid, 0), now)
    /\ pc' = "check_alive"
    /\ UNCHANGED <<max_alive_time, owns_final, now, kv_heap, seq_input, request_cache,
                   position_ids, attn_mask, layer_idx, kv_all, wb_idx, output, total,
                   stale, otherVars>>

\* forward, write-back loop: self.cache_manager.check_alive(); after the last
\* request the loop ends and forward has its hidden states to return
WriteBackCheckAlive ==
    /\ pc = "check_alive"
    /\ LET cd   == check_alive(cache_dict, now, max_alive_time)
           last == wb_idx = Len(seq_input.uuid_list)
           hs   == hidden_rows(seq_input)
       IN /\ cache_dict' = cd
          /\ kv_heap' = collect(kv_heap, cd, request_cache)
          /\ IF last
             THEN /\ pc' = "return"
                  /\ output' = IF owns_final
                               THEN get_last_hidden_states(hs, seq_input.seq_len_list)
                               ELSE hs
                  /\ UNCHANGED wb_idx
             ELSE /\ pc' = "set"
                  /\ wb_idx' = wb_idx + 1
                  /\ UNCHANGED output
    /\ UNCHANGED <<max_alive_time, owns_final, now, seq_input, request_cache,
                   position_ids, attn_mask, layer_idx, kv_all, total, stale, otherVars>>

\* forward returns: the step's AttentionData and RequestsCache go out of scope
Return ==
    /\ pc = "return"
    /\ pc' = "idle"
    /\ seq_input' = NoInput
    /\ request_cache' = EmptyDict
    /\ kv_heap' = collect(kv_heap, cache_dict, EmptyDict)
    /\ position_ids' = <<>>
    /\ attn_mask' = <<>>
    /\ layer_idx' = 0
    /\ wb_idx' = 0
    /\ output' = <<>>
    /\ total' = [u \in UUIDS |-> IF u \in DOMAIN cache_dict THEN total[u] ELSE 0]
    /\ stale' = {}
    /\ UNCHANGED <<max_alive_time, owns_final, now, cache_dict, kv_all, otherVars>>

\* The wall clock advances.  forward reads it only in set and check_alive, so
\* time passing while the layers run is the same as time passing before the
\* first set.
Tick ==
    /\ pc \in {"idle", "set", "check_alive"}
    /\ now < MaxTime
    /\ now' = now + 1
    /\ UNCHANGED <<max_alive_time, owns_final, cache_dict, kv_heap, pc, seq_input,
                   request_cache, position_ids, attn_mask, layer_idx, kv_all, wb_idx,
                   output, total, stale, otherVars>>

\* LlamaModel.__init__: an empty CacheManager
Init ==
    /\ max_alive_time \in 0..MaxAlive
    /\ owns_final \in BOOLEAN
    /\ now = 0
    /\ cache_dict = EmptyDict
    /\ kv_heap = [u \in UUIDS |-> NoList]
    /\ pc = "idle"
    /\ seq_input = NoInput
    /\ request_cache = EmptyDict
    /\ position_ids = <<>>
    /\ attn_mask = <<>>
    /\ layer_idx = 0
    /\ kv_all = <<>>
    /\ wb_idx = 0
    /\ output = <<>>
    /\ total = [u \in UUIDS |-> 0]
    /\ stale = {}
    /\ call = <<>>
    /\ ret = <<>>
    /\ NoLink
    /\ pkv_dict = EmptyDict

Next ==
    \/ ForwardBuild
    \/ LayerStep
    \/ LayersDone
    \/ WriteBackSet
    \/ WriteBackCheckAlive
    \/ Return
    \/ Tick

Spec == Init /\ [][Next]_vars

\* The same worker when a step's write-back loop takes no measurable time: the
\* clock advances only between steps.
TickBetweenSteps == pc = "idle" /\ Tick

NextQuick ==
    \/ ForwardBuild
    \/ LayerStep
    \/ LayersDone
    \/ WriteBackSet
    \/ WriteBackCheckAlive
    \/ Return
    \/ TickBetweenSteps

SpecQuick == Init /\ [][NextQuick]_vars

\* ------------------------------------- RequestsCache.update called directly
\* Rows of a packed tensor handed to update, and rows cached earlier: every row
\* has its own name, so a misplaced or reordered row shows.
packed_rows(tag, n) == [i \in 1..n |-> <<tag, "new", i>>]

cached_rows(tag, u, n) == [i \in 1..n |-> <<tag, u, i>>]

\* uuid_list arguments: any list of at most |UUIDS| ids, repeated and
\* unregistered ids included
UuidLists == UNION {[1..n -> UUIDS] : n \in 0..Cardinality(UUIDS)}

\* the fixed part of the state for the specifications that call one class directly
Detached ==
    /\ max_alive_time = 0
    /\ owns_final = FALSE
    /\ now = 0
    /\ cache_dict = EmptyDict
    /\ seq_input = NoInput
    /\ position_ids = <<>>
    /\ attn_mask = <<>>
    /\ layer_idx = 0
    /\ kv_all = <<>>
    /\ wb_idx = 0
    /\ output = <<>>
    /\ total = [u \in UUIDS |-> 0]
    /\ stale = {}
    /\ pkv_dict = EmptyDict

\* A RequestsCache after some add() calls, with lists that may already hold
\* rows, and the arguments of one update call
InitUpdate ==
    /\ Detached
    /\ NoLink
    /\ pc = "call"
    /\ ret = <<>>
    /\ \E reg \in SUBSET UUIDS :
         \E segs \in [reg -> 1..MaxSeg], olds \in [reg -> 0..MaxSeg] :
            /\ request_cache = [u \in reg |-> [cache |-> u, seq_len |-> segs[u]]]
            /\ kv_heap = [u \in UUIDS |->
                            IF u \in reg
                            THEN [l \in 1..NumLayers |->
                                    [key_states   |-> cached_rows("k", u, olds[u]),
                                     value_states |-> cached_rows("v", u, olds[u])]]
                            ELSE NoList]
    /\ \E n \in 0..(2 * MaxSeg + 1), ul \in UuidLists, l \in 0..(NumLayers - 1) :
         call = [key_states |-> packed_rows("k", n), value_states |-> packed_rows("v", n),
                 uuid_list |-> ul, layer_idx |-> l, heap |-> kv_heap]

\* request_cache.update(key_states, value_states, uuid_list, layer_idx)
CallUpdate ==
    /\ pc = "call"
    /\ LET r == update(kv_heap, request_cache, call.key_states, call.value_states,
                       call.uuid_list, call.layer_idx)
       IN /\ kv_heap' = r.heap
          /\ ret' = [op |-> "update", raised |-> r.raised, key |-> r.key,
                     value |-> r.value]
    /\ pc' = "returned"
    /\ UNCHANGED <<max_alive_time, owns_final, now, cache_dict, seq_input, request_cache,
                   position_ids, attn_mask, layer_idx, kv_all, wb_idx, output, total,
                   stale, call, pkv_dict, linkVars>>

NextUpdate == CallUpdate

SpecUpdate == InitUpdate /\ [][NextUpdate]_vars

\* ---------------------------------- CacheManager of models/cache.py
\* CacheManager.get
pkv_get(cd, key) == cd[key].past_key_values

\* CacheManager.set
pkv_set(cd, key, value, t) ==
    [k \in DOMAIN cd \cup {key} |->
        IF k = key THEN [past_key_values |-> value, ts |-> t] ELSE cd[k]]

\* CacheManager.delete
pkv_delete(cd, key) == [k \in DOMAIN cd \ {key} |-> cd[k]]

\* CacheManager.clear
pkv_clear(cd) == [k \in {} |-> cd[k]]

\* CacheManager.check_alive
pkv_check_alive(cd, t, alive) ==
    [k \in {x \in DOMAIN cd : ~(t - cd[x].ts > alive)} |-> cd[k]]

\* ------------------------------------ the two CacheManagers called directly
\* A run exercises one of the two classes (pc says which); every step records
\* in ret which method ran.
InitManagers ==
    /\ max_alive_time \in 0..MaxAlive
    /\ owns_final = FALSE
    /\ now = 0
    /\ cache_dict = EmptyDict
    /\ pkv_dict = EmptyDict
    /\ kv_heap = [u \in UUIDS |-> NoList]
    /\ pc \in {"commons", "models"}
    /\ seq_input = NoInput
    /\ request_cache = EmptyDict
    /\ position_ids = <<>>
    /\ attn_mask = <<>>
    /\ layer_idx = 0
    /\ kv_all = <<>>
    /\ wb_idx = 0
    /\ output = <<>>
    /\ total = [u \in UUIDS |-> 0]
    /\ stale = {}
    /\ call = <<>>
    /\ ret = <<>>
    /\ NoLink

ManagerFrame ==
    UNCHANGED <<max_alive_time, owns_final, kv_heap, pc, seq_input, request_cache,
                position_ids, attn_mask, layer_idx, kv_all, wb_idx, output, total,
                stale, call, linkVars>>

\* cache_manager.set(key, value, seq_len)
ManagerSet ==
    /\ pc = "commons"
    /\ \E key \in UUIDS, seq_len \in 1..MaxSeg :
         /\ cache_dict' = set(cache_dict, key, key, seq_len, now)
         /\ ret' = [op |-> "set", on |-> "commons", key |-> key]
    /\ UNCHANGED <<now, pkv_dict>>
    /\ ManagerFrame

\* cache_manager.get(key); a missing key raises (None is not subscriptable)
ManagerGet ==
    /\ pc = "commons"
    /\ \E key \in UUIDS :
         ret' = [op |-> "get", on |-> "commons", key |-> key,
                 value |-> IF key \in DOMAIN cache_dict
                           THEN get(cache_dict, key) ELSE "TypeError"]
    /\ UNCHANGED <<now, cache_dict, pkv_dict>>
    /\ ManagerFrame

\* cache_manager.delete(key); a missing key raises KeyError and changes nothing
ManagerDelete ==
    /\ pc = "commons"
    /\ \E key \in UUIDS :
         /\ cache_dict' = IF key \in DOMAIN cache_dict
                          THEN delete(cache_dict, key) ELSE cache_dict
         /\ ret' = [op |-> "delete", on |-> "commons", key |-> key]
    /\ UNCHANGED <<now, pkv_dict>>
    /\ ManagerFrame

\* cache_manager.clear()
ManagerClear ==
    /\ pc = "commons"
    /\ cache_dict' = clear(cache_dict)
    /\ ret' = [op |-> "clear", on |-> "commons"]
    /\ UNCHANGED <<now, pkv_dict>>
    /\ ManagerFrame

\* cache_manager.check_alive()
ManagerCheckAlive ==
    /\ pc = "commons"
    /\ cache_dict' = check_alive(cache_dict, now, max_alive_time)
    /\ ret' = [op |-> "check_alive", on |-> "commons"]
    /\ UNCHANGED <<now, pkv_dict>>
    /\ ManagerFrame

\* models/cache.py: cache_manager.set(key, value)
PkvSet ==
    /\ pc = "models"
    /\ \E key \in UUIDS, value \in UUIDS :
         /\ pkv_dict' = pkv_set(pkv_dict, key, value, now)
         /\ ret' = [op |-> "set", on |-> "models", key |-> key]
    /\ UNCHANGED <<now, cache_dict>>
    /\ ManagerFrame

\* models/cache.py: get, delete and clear
PkvGet ==
    /\ pc = "models"
    /\ \E key \in UUIDS :
         ret' = [op |-> "get", on |-> "models", key |-> key,
                 value |-> IF key \in DOMAIN pkv_dict
                           THEN pkv_get(pkv_dict, key) ELSE "TypeError"]
    /\ UNCHANGED <<now, cache_dict, pkv_dict>>
    /\ ManagerFrame

PkvDelete ==
    /\ pc = "models"
    /\ \E key \in UUIDS :
         /\ pkv_dict' = IF key \in DOMAIN pkv_dict
                        THEN pkv_delete(pkv_dict, key) ELSE pkv_dict
         /\ ret' = [op |-> "delete", on |-> "models", key |-> key]
    /\ UNCHANGED <<now, cache_dict>>
    /\ ManagerFrame

PkvClear ==
    /\ pc = "models"
    /\ pkv_dict' = pkv_clear(pkv_dict)
    /\ ret' = [op |-> "clear", on |-> "models"]
    /\ UNCHANGED <<now, cache_dict>>
    /\ ManagerFrame

\* models/cache.py: cache_manager.check_alive()
PkvCheckAlive ==
    /\ pc = "models"
    /\ pkv_dict' = pkv_check_alive(pkv_dict, now, max_alive_time)
    /\ ret' = [op |-> "check_alive", on |-> "models"]
    /\ UNCHANGED <<now, cache_dict>>
    /\ ManagerFrame

\* the wall clock advances between calls
ManagerTick ==
    /\ pc \in {"commons", "models"}
    /\ now < MaxTime
    /\ now' = now + 1
    /\ ret' = [op |-> "tick", on |-> "clock"]
    /\ UNCHANGED <<cache_dict, pkv_dict>>
    /\ ManagerFrame

NextManagers ==
    \/ ManagerSet
    \/ ManagerGet
    \/ ManagerDelete
    \/ ManagerClear
    \/ ManagerCheckAlive
    \/ PkvSet
    \/ PkvGet
    \/ PkvDelete
    \/ PkvClear
    \/ PkvCheckAlive
    \/ ManagerTick

SpecManagers == InitManagers /\ [][NextManagers]_vars

\* ----------------------------------------------------- WebsocketManager
\* The coordinator's membership manager.  Two classes of that name exist,
\* network/manager/websocket_manager.py ("network") and websocket/manager.py
\* ("websocket"); mgr says which one a behaviour runs.
CLIENTS == {"c1", "c2"}

\* total_layers of the model served
TotalLayers == 2

\* cap on a rank's client count
MaxCount == 2

\* pp_rank / start_idx / end_idx of a ClientData built without them, and the
\* pp_rank of a RegisterClientRequest that carries no assignment
Unassigned == 0 - 1

Ranks == 0..(client_size - 1)

\* split_model_layers: n contiguous disjoint ranges covering [0, L), balanced
\* within one layer
split_model_layers(n, L) ==
    [r \in 1..n |->
       LET base  == L \div n
           extra == L % n
           start == (r - 1) * base + Min(r - 1, extra)
       IN <<start, start + base + (IF r <= extra THEN 1 ELSE 0)>>]

layer_info == split_model_layers(client_size, TotalLayers)

\* ClientData(client_id=..., host=..., pp_rank=..., start_idx=..., end_idx=...)
ClientData(pp_rank, start_idx, end_idx) ==
    [pp_rank |-> pp_rank, start_idx |-> start_idx, end_idx |-> end_idx]

\* the manager's mutable fields as one value
Manager == [clients |-> clients, client_info |-> client_info,
            connect_clients |-> connect_clients, stub_list |-> stub_list]

\* RegisterClientRequest.host: the address a client listens on
host_of(client_id) == IF client_id = "c1" THEN "h1" ELSE "h2"

\* ClientRPCManager.__init__: [None for _ in range(pp_size)]
new_stub_list(pp_size) == [i \in 1..pp_size |-> "None"]

\* ClientRPCManager.update_url: stub i is rebuilt on a channel to url_list[i];
\* the assignment raises IndexError at the first i past the end of stub_list,
\* with the stubs before it already replaced
update_url(stubs, url_list) ==
    [stub_list |-> [i \in DOMAIN stubs |->
                      IF i <= Len(url_list) THEN url_list[i] ELSE stubs[i]],
     raised    |-> Len(url_list) > Len(stubs)]

\* WebsocketManager.has_full_model
has_full_model(st) == Len(st.connect_clients) = client_size

\* pp_rank indexes client_info
has_rank(ci, pp_rank) == pp_rank + 1 \in DOMAIN ci

\* self.client_info[pp_rank][-1] += d; a rank past the end raises IndexError
\* and changes nothing
bump_count(ci, pp_rank, d) ==
    IF has_rank(ci, pp_rank)
    THEN [ci EXCEPT ![pp_rank + 1] = <<@[1], @[2], @[3] + d>>]
    ELSE ci

\* self.clients[client_id] = <a new ClientData>: entries of connect_clients
\* that were the replaced object no longer follow clients[client_id]
rebind(st, client_id, data) ==
    [st EXCEPT
       !.clients = [c \in DOMAIN st.clients \cup {client_id} |->
                      IF c = client_id THEN data ELSE st.clients[c]],
       !.connect_clients = [i \in DOMAIN st.connect_clients |->
                      IF st.connect_clients[i].client_id = client_id
                      THEN [st.connect_clients[i] EXCEPT !.shared = FALSE]
                      ELSE st.connect_clients[i]]]

\* the response of a call that raised instead of returning
Raised == [msg |-> "raised", status |-> 500, pp_rank |-> Unassigned,
           start_idx |-> Unassigned, end_idx |-> Unassigned]

Response(msg, status, pp_rank, start_idx, end_idx) ==
    [msg |-> msg, status |-> status, pp_rank |-> pp_rank,
     start_idx |-> start_idx, end_idx |-> end_idx]

ZeroRanks(ci) == {r \in 1..Len(ci) : ci[r][3] = 0}

\* WebsocketManager.get_free_layer; pick is what random.choice returns.
\* network: random.choice(range(client_size)) when has_full_model, else the
\* first rank whose count is 0, else ValueError("No free layer").
\* websocket: random.choice(len(self.layer_info)) raises TypeError when
\* has_full_model; when no count is 0 the method returns None and the caller's
\* unpacking raises.
get_free_layer(st, pick) ==
    IF has_full_model(st)
    THEN IF mgr = "network"
         THEN [raised |-> FALSE, pp_rank |-> pick,
               start_idx |-> layer_info[pick + 1][1], end_idx |-> layer_info[pick + 1][2]]
         ELSE [raised |-> TRUE, pp_rank |-> Unassigned,
               start_idx |-> Unassigned, end_idx |-> Unassigned]
    ELSE IF ZeroRanks(st.client_info) = {}
         THEN [raised |-> TRUE, pp_rank |-> Unassigned,
               start_idx |-> Unassigned, end_idx |-> Unassigned]
         ELSE LET r == CHOOSE z \in ZeroRanks(st.client_info) :
                          \A q \in ZeroRanks(st.client_info) : z <= q
              IN [raised |-> FALSE, pp_rank |-> r - 1,
                  start_idx |-> st.client_info[r][1], end_idx |-> st.client_info[r][2]]

\* register_client that stores the descriptor before it looks at the probe
register_client_store_first(st, request, ping_ok, pick) ==
    IF mgr = "network" /\ ~ping_ok
    THEN [st |-> rebind(st, request.client_id,
                        ClientData(Unassigned, Unassigned, Unassigned)),
          resp |-> Response("ping failed", 200, Unassigned, Unassigned, Unassigned)]
    ELSE [st |-> st,
          resp |-> Response("success", 200, request.pp_rank, request.start_idx,
                            request.end_idx)]

\* WebsocketManager.register_client.  ping_ok is the outcome of tcp_ping_test,
\* which only the network manager runs.
register_client(st, request, ping_ok, pick) ==
    IF mgr = "network" /\ ~ping_ok
    THEN [st |-> st,
          resp |-> Response("ping failed", 200, Unassigned, Unassigned, Unassigned)]
    ELSE IF request.pp_rank = Unassigned
    THEN LET st1  == rebind(st, request.client_id,
                            ClientData(Unassigned, Unassigned, Unassigned))
             free == get_free_layer(st1, pick)
         IN [st |-> st1,
             resp |-> IF free.raised
                      THEN Raised
                      ELSE Response("success", 200, free.pp_rank, free.start_idx,
                                    free.end_idx)]
    ELSE LET st1 == rebind(st, request.client_id,
                           ClientData(request.pp_rank, request.start_idx,
                                      request.end_idx))
         IN [st |-> [st1 EXCEPT !.client_info = bump_count(@, request.pp_rank, 1)],
             resp |-> IF has_rank(st.client_info, request.pp_rank)
                      THEN Response("success", 200, request.pp_rank, request.start_idx,
                                    request.end_idx)
                      ELSE Raised]

\* init_client that counts before it looks the client up
init_client_count_first(st, request) ==
    IF request.client_id \notin DOMAIN st.clients
    THEN [st |-> [st EXCEPT !.client_info = bump_count(@, request.pp_rank, 1)],
          resp |-> Response("client not found", 499, Unassigned, Unassigned, Unassigned)]
    ELSE [st |-> [st EXCEPT
                    !.clients[request.client_id] =
                        ClientData(request.pp_rank, request.start_idx, request.end_idx),
                    !.client_info = bump_count(@, request.pp_rank, 1)],
          resp |-> Response("success", 200, request.pp_rank, request.start_idx,
                            request.end_idx)]

\* WebsocketManager.init_client: the ClientData object is changed in place, so
\* an entry of connect_clients that is the same object changes with it
init_client(st, request) ==
    IF request.client_id \notin DOMAIN st.clients
    THEN [st |-> st,
          resp |-> Response("client not found", 499, Unassigned, Unassigned, Unassigned)]
    ELSE [st |-> [st EXCEPT
                    !.clients[request.client_id] =
                        ClientData(request.pp_rank, request.start_idx, request.end_idx),
                    !.connect_clients = [i \in DOMAIN st.connect_clients |->
                        IF /\ st.connect_clients[i].client_id = request.client_id
                           /\ st.connect_clients[i].shared
                        THEN [st.connect_clients[i] EXCEPT
                                !.pp_rank = request.pp_rank,
                                !.start_idx = request.start_idx,
                                !.end_idx = request.end_idx]
                        ELSE st.connect_clients[i]],
                    !.client_info = bump_count(@, request.pp_rank, 1)],
          resp |-> Response("success", 200, request.pp_rank, request.start_idx,
                            request.end_idx)]

\* the test that guards the decrement in unregister_client:
\* network: data.pp_rank is not None and data.pp_rank != -1
\* websocket: data.pp_rank and data.pp_rank != -1
owns_rank(data) ==
    IF mgr = "network"
    THEN data.pp_rank # Unassigned
    ELSE data.pp_rank # 0 /\ data.pp_rank # Unassigned

\* WebsocketManager.unregister_client
unregister_client(st, client_id) ==
    IF client_id \notin DOMAIN st.clients
    THEN st
    ELSE LET data == st.clients[client_id]
             st1  == [st EXCEPT
                        !.clients = [c \in DOMAIN st.clients \ {client_id} |->
                                       st.clients[c]],
                        !.connect_clients = [i \in DOMAIN st.connect_clients |->
                            IF st.connect_clients[i].client_id = client_id
                            THEN [st.connect_clients[i] EXCEPT !.shared = FALSE]
                            ELSE st.connect_clients[i]]]
         IN IF owns_rank(data)
            THEN [st1 EXCEPT !.client_info = bump_count(@, data.pp_rank, 0 - 1)]
            ELSE st1

\* find_continuous_path(clients, total_layers): the ordered lists of registered
\* clients whose ranges concatenate to exactly [0, total_layers)
find_continuous_path(cl, L) ==
    {p \in InjectiveSeqs(DOMAIN cl) :
        /\ cl[p[1]].start_idx = 0
        /\ cl[p[Len(p)]].end_idx = L
        /\ \A i \in 1..Len(p) : cl[p[i]].start_idx < cl[p[i]].end_idx
        /\ \A i \in 1..(Len(p) - 1) : cl[p[i]].end_idx = cl[p[i + 1]].start_idx}

\* WebsocketManager.set_connect_clients with x the path found (<<>> for none).
\* websocket: the method ends with client_manager.update_url on the hosts of
\* the new path.
set_connect_clients(st, x) ==
    LET path == [i \in DOMAIN x |->
                   [client_id |-> x[i], pp_rank |-> st.clients[x[i]].pp_rank,
                    start_idx |-> st.clients[x[i]].start_idx,
                    end_idx |-> st.clients[x[i]].end_idx, shared |-> TRUE]]
        upd  == update_url(st.stub_list,
                           [i \in DOMAIN path |-> host_of(path[i].client_id)])
    IN IF mgr = "websocket"
       THEN [st |-> [st EXCEPT !.connect_clients = path, !.stub_list = upd.stub_list],
             raised |-> upd.raised]
       ELSE [st |-> [st EXCEPT !.connect_clients = path], raised |-> FALSE]

\* master_url handed to send_config
MasterUrl == "master"

\* schemas_pb2.SetConfigRequest(**config) as the worker at host `to` receives it
SetConfigRequest(to, forward_url, master_url, pp_rank) ==
    [to |-> to, forward_url |-> forward_url, master_url |-> master_url,
     pp_rank |-> pp_rank]

\* the frame of a send_config call: the list object enumerate() walks, the
\* index of the next iteration and the requests sent so far
SendFrame(at, path, i, sent) == [pc |-> at, path |-> path, i |-> i, sent |-> sent]

\* WebsocketManager.send_config, one iteration of its loop up to the await:
\* enumerate walks the list the call started with, len(self.connect_clients)
\* and self.connect_clients[i + 1] read the attribute as it is now, and
\* client_manager.set_config(i, ...) uses stub_list[i]
send_config_body(frame, st, master_url) ==
    LET i == frame.i
        n == Len(st.connect_clients)
    IN IF i = Len(frame.path)
       THEN [frame EXCEPT !.pc = "returned"]
       ELSE IF i # n - 1 /\ i + 2 \notin DOMAIN st.connect_clients
       THEN [frame EXCEPT !.pc = "raised"]
       ELSE IF i + 1 \notin DOMAIN st.stub_list
       THEN [frame EXCEPT !.pc = "raised"]
       ELSE IF st.stub_list[i + 1] = "None"
       THEN [frame EXCEPT !.pc = "raised"]
       ELSE LET url == IF i = n - 1 THEN master_url
                       ELSE host_of(st.connect_clients[i + 2].client_id)
            IN [frame EXCEPT
                  !.i = i + 1,
                  !.sent = Append(@, SetConfigRequest(st.stub_list[i + 1], url,
                                                      master_url, i))]

\* WebsocketManager.unset_connect_clients (network manager only)
RECURSIVE unset_loop(_, _, _)
unset_loop(st, path, idx_list) ==
    IF idx_list = <<>>
    THEN st
    ELSE unset_loop(unregister_client(st, path[Head(idx_list)].client_id),
                    path, Tail(idx_list))

unset_connect_clients(st, idx_list) ==
    [unset_loop(st, st.connect_clients, idx_list) EXCEPT !.connect_clients = <<>>]

\* ---- the manager's handlers, called in any order
CoordinatorFrame ==
    UNCHANGED <<max_alive_time, owns_final, now, cache_dict, kv_heap, pc, seq_input,
                request_cache, position_ids, attn_mask, layer_idx, kv_all, wb_idx,
                output, total, stale, call, pkv_dict, mgr, client_size,
                clientVars, rpcVars, req, pendVars>>

MemberFrame == CoordinatorFrame /\ UNCHANGED send_cfg

\* WebsocketManager.__init__
InitMember ==
    /\ Detached
    /\ pc = "member"
    /\ kv_heap = [u \in UUIDS |-> NoList]
    /\ request_cache = EmptyDict
    /\ call = <<>>
    /\ ret = <<>>
    /\ NoClient
    /\ NoRPC
    /\ NoRequest
    /\ NoPending
    /\ mgr \in {"network", "websocket"}
    /\ client_size \in 1..TotalLayers
    /\ clients = <<>>
    /\ client_info = [r \in 1..client_size |-> <<layer_info[r][1], layer_info[r][2], 0>>]
    /\ connect_clients = <<>>
    /\ stub_list = IF mgr = "websocket" THEN new_stub_list(client_size) ELSE <<>>
    /\ send_cfg = SendFrame("idle", <<>>, 0, <<>>)

Become(st) ==
    /\ clients' = st.clients
    /\ client_info' = st.client_info
    /\ connect_clients' = st.connect_clients
    /\ stub_list' = st.stub_list

\* the requests a client sends: no assignment, or a rank with the range the
\* manager hands out for it
Requests ==
    {[client_id |-> c, pp_rank |-> Unassigned, start_idx |-> Unassigned,
      end_idx |-> Unassigned] : c \in CLIENTS}
    \cup {[client_id |-> c, pp_rank |-> r, start_idx |-> layer_info[r + 1][1],
           end_idx |-> layer_info[r + 1][2]] : c \in CLIENTS, r \in Ranks}

\* POST /register_client
RegisterClient ==
    /\ pc = "member"
    /\ \E request \in Requests, ping_ok \in BOOLEAN, pick \in Ranks :
         /\ request.pp_rank # Unassigned => client_info[request.pp_rank + 1][3] < MaxCount
         /\ LET r == register_client(Manager, request, ping_ok, pick)
            IN /\ Become(r.st)
               /\ ret' = [op |-> "register_client", msg |-> r.resp.msg]
    /\ MemberFrame

\* POST /init_model
InitClient ==
    /\ pc = "member"
    /\ \E request \in Requests :
         /\ request.pp_rank # Unassigned
         /\ client_info[request.pp_rank + 1][3] < MaxCount
         /\ LET r == init_client(Manager, request)
            IN /\ Become(r.st)
               /\ ret' = [op |-> "init_client", msg |-> r.resp.msg]
    /\ MemberFrame

\* a client goes away
UnregisterClient ==
    /\ pc = "member"
    /\ \E client_id \in CLIENTS :
         /\ Become(unregister_client(Manager, client_id))
         /\ ret' = [op |-> "unregister_client", msg |-> ""]
    /\ MemberFrame

\* path selection
SetConnectClients ==
    /\ pc = "member"
    /\ LET found == find_continuous_path(clients, TotalLayers)
       IN \E x \in (IF found = {} THEN {<<>>} ELSE found) :
             LET r == set_connect_clients(Manager, x)
             IN /\ Become(r.st)
                /\ ret' = [op |-> "set_connect_clients",
                           msg |-> IF r.raised THEN "raised" ELSE ""]
    /\ MemberFrame

\* the members of the path at idx_list have failed
UnsetConnectClients ==
    /\ pc = "member"
    /\ mgr = "network"
    /\ \E idx_list \in InjectiveSeqs(DOMAIN connect_clients) \cup {<<>>} :
         /\ Become(unset_connect_clients(Manager, idx_list))
         /\ ret' = [op |-> "unset_connect_clients", msg |-> ""]
    /\ MemberFrame

NextMember ==
    \/ RegisterClient
    \/ InitClient
    \/ UnregisterClient
    \/ SetConnectClients
    \/ UnsetConnectClients

SpecMember == InitMember /\ [][NextMember]_vars

\* ---- the websocket coordinator configuring its path
\* The requests of clients that were initialised by an earlier coordinator
\* process: they re-register with the rank and range of whatever split that
\* coordinator used.
EarlierAssignments ==
    UNION {{[client_id |-> c, pp_rank |-> r,
             start_idx |-> split_model_layers(n, TotalLayers)[r + 1][1],
             end_idx |-> split_model_layers(n, TotalLayers)[r + 1][2]] :
              c \in CLIENTS, r \in 0..(n - 1)} : n \in 1..TotalLayers}

InitChain == InitMember /\ mgr = "websocket"

\* POST /register_client from a client that kept its init_model_info
Reregister ==
    /\ pc = "member"
    /\ \E request \in EarlierAssignments, pick \in Ranks :
         /\ has_rank(client_info, request.pp_rank)
               => client_info[request.pp_rank + 1][3] < MaxCount
         /\ LET r == register_client(Manager, request, TRUE, pick)
            IN /\ Become(r.st)
               /\ ret' = [op |-> "register_client", msg |-> r.resp.msg]
    /\ MemberFrame

\* send_config(master_url) is called
CallSendConfig ==
    /\ pc = "member"
    /\ send_cfg.pc # "loop"
    /\ send_cfg' = SendFrame("loop", connect_clients, 0, <<>>)
    /\ ret' = [op |-> "send_config", msg |-> ""]
    /\ UNCHANGED <<clients, client_info, connect_clients, stub_list>>
    /\ CoordinatorFrame

\* send_config runs to its next await, or to its end
SendConfigStep ==
    /\ pc = "member"
    /\ send_cfg.pc = "loop"
    /\ send_cfg' = send_config_body(send_cfg, Manager, MasterUrl)
    /\ UNCHANGED <<clients, client_info, connect_clients, stub_list, ret>>
    /\ CoordinatorFrame

NextChain ==
    \/ Reregister
    \/ UnregisterClient
    \/ SetConnectClients
    \/ CallSendConfig
    \/ SendConfigStep

SpecChain == InitChain /\ [][NextChain]_vars

\* ----------------------------------------------------------- HTTPClient
\* largest max_retry_attempts, and longest ping_interval / retry_delay
MaxRetry == 2
MaxDelay == 2

\* one entry of the history kept in hb_trail
Event(ev, n) == [ev |-> ev, n |-> n]

Slept(d) == Event("sleep", d)

\* while retry_count < self.max_retry_attempts and self.is_running
may_retry_once_more(count, running) == count <= max_retry_attempts /\ running
may_retry(count, running) == count < max_retry_attempts /\ running

\* where maintain_connection goes from the head of the retry loop
retry_head(count, running) ==
    IF may_retry(count, running) THEN "connect" ELSE "ping_interval"

\* retry_count += 1, then the sleep guarded by retry_count < max_retry_attempts,
\* then the head of the retry loop
after_failed_attempt(count, running) ==
    IF count + 1 < max_retry_attempts THEN "retry_delay"
    ELSE retry_head(count + 1, running)

\* while self.is_running
loop_head(running) == IF running THEN "ping" ELSE "done"

ClientFrame ==
    UNCHANGED <<max_alive_time, owns_final, now, cache_dict, kv_heap, pc, seq_input,
                request_cache, position_ids, attn_mask, layer_idx, kv_all, wb_idx,
                output, total, stale, call, ret, pkv_dict, coordVars, rpcVars, req,
                pendVars, max_retry_attempts, ping_interval, retry_delay>>

\* HTTPClient.__init__
InitClientLoop ==
    /\ Detached
    /\ NoCoordinator
    /\ NoRPC
    /\ NoRequest
    /\ NoPending
    /\ pc = "client"
    /\ kv_heap = [u \in UUIDS |-> NoList]
    /\ request_cache = EmptyDict
    /\ call = <<>>
    /\ ret = <<>>
    /\ is_running = FALSE
    /\ max_retry_attempts \in 0..MaxRetry
    /\ ping_interval \in 1..MaxDelay
    /\ retry_delay \in 1..MaxDelay
    /\ hb_pc = "idle"
    /\ retry_count = 0
    /\ hb_trail = <<>>

\* the owner of the client switches is_running
SetRunning ==
    /\ pc = "client"
    /\ is_running' = ~is_running
    /\ UNCHANGED <<hb_pc, retry_count, hb_trail>>
    /\ ClientFrame

\* maintain_connection is started
MaintainConnection ==
    /\ hb_pc \in {"idle", "done"}
    /\ hb_pc' = loop_head(is_running)
    /\ hb_trail' = <<>>
    /\ UNCHANGED <<is_running, retry_count>>
    /\ ClientFrame

\* is_connected = await self.ping()
Ping ==
    /\ hb_pc = "ping"
    /\ \E is_connected \in BOOLEAN :
         IF is_connected
         THEN /\ hb_pc' = "ping_interval"
              /\ hb_trail' = <<>>
              /\ UNCHANGED retry_count
         ELSE /\ retry_count' = 0
              /\ hb_trail' = <<Event("missed", 0)>>
              /\ hb_pc' = retry_head(0, is_running)
    /\ UNCHANGED is_running
    /\ ClientFrame

\* await self.connect(client_id, ip_addr, port), which may raise
Connect ==
    /\ hb_pc = "connect"
    /\ \E connected \in BOOLEAN :
         IF connected
         THEN /\ hb_pc' = "follow_up_ping"
              /\ UNCHANGED <<retry_count, hb_trail>>
         ELSE /\ hb_trail' = Append(hb_trail, Event("connect raised", retry_count))
              /\ retry_count' = retry_count + 1
              /\ hb_pc' = after_failed_attempt(retry_count, is_running)
    /\ UNCHANGED is_running
    /\ ClientFrame

\* if await self.ping(): break
FollowUpPing ==
    /\ hb_pc = "follow_up_ping"
    /\ \E is_connected \in BOOLEAN :
         IF is_connected
         THEN /\ hb_trail' = Append(hb_trail, Event("reconnected", retry_count))
              /\ hb_pc' = "ping_interval"
              /\ UNCHANGED retry_count
         ELSE /\ hb_trail' = Append(hb_trail, Event("ping failed", retry_count))
              /\ retry_count' = retry_count + 1
              /\ hb_pc' = after_failed_attempt(retry_count, is_running)
    /\ UNCHANGED is_running
    /\ ClientFrame

\* await asyncio.sleep(self.retry_delay) returns
RetryDelay ==
    /\ hb_pc = "retry_delay"
    /\ hb_trail' = Append(hb_trail, Slept(retry_delay))
    /\ hb_pc' = retry_head(retry_count, is_running)
    /\ UNCHANGED <<is_running, retry_count>>
    /\ ClientFrame

\* await asyncio.sleep(self.ping_interval) returns
PingInterval ==
    /\ hb_pc = "ping_interval"
    /\ hb_trail' = Append(hb_trail, Slept(ping_interval))
    /\ hb_pc' = loop_head(is_running)
    /\ UNCHANGED <<is_running, retry_count>>
    /\ ClientFrame

NextClient ==
    \/ SetRunning
    \/ MaintainConnection
    \/ Ping
    \/ Connect
    \/ FollowUpPing
    \/ RetryDelay
    \/ PingInterval

SpecClient == InitClientLoop /\ [][NextClient]_vars

\* ----------------------------------------------------------- RPCManager
\* the timeout of asyncio.wait_for in forward, in clock steps, and the largest
\* number of elements of a hidden-states tensor
HopTimeout == 2
MaxElems == 2

\* bf16 bit patterns a hidden state can take
Bf16 == {1, 300}

Tensors == UNION {[1..n -> Bf16] : n \in 1..MaxElems}

\* the two raw bytes of an element, low byte first
to_bytes(t) ==
    [i \in 1..(2 * Len(t)) |->
        IF i % 2 = 1 THEN t[(i + 1) \div 2] % 256 ELSE t[i \div 2] \div 256]

\* packed tensor: shape header and raw bytes
serialize_tensor(t) == [shape |-> Len(t), data |-> to_bytes(t)]

deserialize_tensor(p) ==
    [i \in 1..p.shape |-> p.data[2 * i - 1] + 256 * p.data[2 * i]]

\* an asyncio future
Future(state, value) == [state |-> state, value |-> value]

PendingFuture == Future("pending", <<>>)

\* what asyncio.wait_for(fut, timeout=100.0) does with the future once the
\* wait has lasted so long
wait_for_no_timeout(fut, t) ==
    IF fut.state = "pending" THEN "wait" ELSE fut.state
wait_for(fut, t) ==
    IF fut.state = "pending"
    THEN (IF t >= HopTimeout THEN "timeout" ELSE "wait")
    ELSE fut.state

Raise(error) == [kind |-> "raised", error |-> error, hidden |-> <<>>, status |-> <<>>]

Returned(hidden, status) == [kind |-> "returned", error |-> "", hidden |-> hidden, status |-> status]

RPCFrame ==
    UNCHANGED <<max_alive_time, owns_final, now, cache_dict, kv_heap, pc, seq_input,
                request_cache, position_ids, attn_mask, layer_idx, kv_all, wb_idx,
                output, total, stale, call, ret, pkv_dict, coordVars, clientVars, req,
                pendVars>>

\* RPCManager.__init__
InitRPC ==
    /\ Detached
    /\ NoCoordinator
    /\ NoClient
    /\ NoRequest
    /\ NoPending
    /\ pc = "rpc"
    /\ kv_heap = [u \in UUIDS |-> NoList]
    /\ request_cache = EmptyDict
    /\ call = <<>>
    /\ ret = <<>>
    /\ fw_pc = "idle"
    /\ forward_future = Future("none", <<>>)
    /\ status_future = Future("none", <<>>)
    /\ waited = 0
    /\ fw_output = <<>>
    /\ fw_ret = <<>>

\* forward up to await asyncio.sleep(0): the futures are registered and the
\* task that sends the step is created
CallForward ==
    /\ fw_pc \in {"idle", "ended"}
    /\ fw_pc' = "sleep"
    /\ forward_future' = PendingFuture
    /\ status_future' = PendingFuture
    /\ waited' = 0
    /\ fw_output' = <<>>
    /\ fw_ret' = <<>>
    /\ RPCFrame

\* await asyncio.sleep(0) returns and the first wait_for starts
Yield ==
    /\ fw_pc = "sleep"
    /\ fw_pc' = "wait_forward"
    /\ waited' = 0
    /\ UNCHANGED <<forward_future, status_future, fw_output, fw_ret>>
    /\ RPCFrame

\* the step's result arrives, or its future is failed
SetForward ==
    /\ forward_future.state = "pending"
    /\ \/ \E t \in Tensors : forward_future' = Future("result", serialize_tensor(t))
       \/ forward_future' = Future("exception", <<>>)
    /\ UNCHANGED <<fw_pc, status_future, waited, fw_output, fw_ret>>
    /\ RPCFrame

\* the step's per-hop cost arrives, or its future is failed
SetStatus ==
    /\ status_future.state = "pending"
    /\ \/ \E cost \in 1..2 : status_future' = Future("result", <<cost>>)
       \/ status_future' = Future("exception", <<>>)
    /\ UNCHANGED <<fw_pc, forward_future, waited, fw_output, fw_ret>>
    /\ RPCFrame

\* time passes while a wait_for is waiting
Elapse ==
    /\ \/ fw_pc = "wait_forward" /\ wait_for(forward_future, waited) = "wait"
       \/ fw_pc = "wait_status" /\ wait_for(status_future, waited) = "wait"
    /\ waited' = waited + 1
    /\ waited' <= HopTimeout
    /\ UNCHANGED <<fw_pc, forward_future, status_future, fw_output, fw_ret>>
    /\ RPCFrame

\* output = await asyncio.wait_for(forward_future, timeout=100.0), then
\* deserialize_tensor(output)
WaitForward ==
    /\ fw_pc = "wait_forward"
    /\ LET got == wait_for(forward_future, waited)
       IN /\ got # "wait"
          /\ IF got = "result"
             THEN /\ fw_output' = deserialize_tensor(forward_future.value)
                  /\ fw_pc' = "wait_status"
                  /\ waited' = 0
                  /\ UNCHANGED <<forward_future, fw_ret>>
             ELSE /\ fw_pc' = "ended"
                  /\ forward_future' =
                        IF got = "timeout" THEN Future("cancelled", <<>>) ELSE forward_future
                  /\ fw_ret' = Raise(IF got = "timeout" THEN "TimeoutError" ELSE got)
                  /\ UNCHANGED <<waited, fw_output>>
    /\ UNCHANGED status_future
    /\ RPCFrame

\* await asyncio.wait_for(status_future, timeout=100.0), then return
WaitStatus ==
    /\ fw_pc = "wait_status"
    /\ LET got == wait_for(status_future, waited)
       IN /\ got # "wait"
          /\ fw_pc' = "ended"
          /\ IF got = "result"
             THEN /\ fw_ret' = Returned(fw_output, status_future.value)
                  /\ UNCHANGED status_future
             ELSE /\ status_future' =
                        IF got = "timeout" THEN Future("cancelled", <<>>) ELSE status_future
                  /\ fw_ret' = Raise(IF got = "timeout" THEN "TimeoutError" ELSE got)
    /\ UNCHANGED <<forward_future, waited, fw_output>>
    /\ RPCFrame

NextRPC ==
    \/ CallForward
    \/ Yield
    \/ SetForward
    \/ SetStatus
    \/ Elapse
    \/ WaitForward
    \/ WaitStatus

SpecRPC == InitRPC /\ [][NextRPC]_vars

\* the event loop keeps running the coroutine and its clock keeps advancing;
\* nothing obliges a result to arrive
SpecRPCLive ==
    /\ SpecRPC
    /\ WF_vars(Yield)
    /\ WF_vars(Elapse)
    /\ WF_vars(WaitForward)
    /\ WF_vars(WaitStatus)

\* ------------------------------------------------- tensor-parallel layers
\* largest intermediate_size and largest world_size
MaxInter == 4
MaxWorld == 4

\* config.hidden_size
HiddenSize == 1

\* values a weight or an input element can take
Weights == {0 - 1, 2}

CeilDiv(a, b) == (a + b - 1) \div b

\* torch.chunk(t, chunks, dim=0): pieces of ceil(len / chunks) rows until the
\* tensor is used up
torch_chunk(t, chunks) ==
    LET size == CeilDiv(Len(t), chunks)
    IN [k \in 1..CeilDiv(Len(t), size) |-> Slice(t, (k - 1) * size, k * size)]

\* torch.chunk(w, chunks, dim=1) of a matrix given by rows
torch_chunk_cols(w, chunks) ==
    LET cols == Len(w[1])
        size == CeilDiv(cols, chunks)
    IN [k \in 1..CeilDiv(cols, size) |->
          [r \in 1..Len(w) |-> Slice(w[r], (k - 1) * size, k * size)]]

\* nn.Linear without bias: weight is [out_features, in_features]
linear(w, x) ==
    [o \in 1..Len(w) |-> SumSeq([c \in 1..Len(x) |-> w[o][c] * x[c]])]

\* ACT2FN[config.hidden_act], taken elementwise
act_fn(v) == IF v > 0 THEN v ELSE 0

\* a constructed layer: the shape of its nn.Linear and the sizes forward splits by
Layer(in_features, out_features, col_size_list) ==
    [ok |-> TRUE, in_features |-> in_features, out_features |-> out_features,
     col_size_list |-> col_size_list]

AssertionError ==
    [ok |-> FALSE, in_features |-> 0, out_features |-> 0, col_size_list |-> <<>>]

MergeParallelLayer_unchecked(row_size, col_size, dup_layer, world_size) ==
    Layer(row_size, (col_size * dup_layer) \div world_size, <<>>)
MergeParallelLayer(row_size, col_size, dup_layer, world_size) ==
    IF col_size % world_size # 0 THEN AssertionError
    ELSE Layer(row_size, (col_size * dup_layer) \div world_size, <<>>)

QKVParallelLayer(row_size, col_size_list, world_size) ==
    IF \E i \in DOMAIN col_size_list : col_size_list[i] % world_size # 0
    THEN AssertionError
    ELSE IF SumSeq(col_size_list) % world_size # 0 THEN AssertionError
    ELSE Layer(row_size, SumSeq(col_size_list) \div world_size,
               [i \in DOMAIN col_size_list |-> col_size_list[i] \div world_size])

RowParallelLayer(row_size, col_size, world_size) ==
    IF row_size % world_size # 0 THEN AssertionError
    ELSE Layer(row_size \div world_size, col_size, <<>>)

\* load_state_dict({"layer.weight": w}) accepts only a weight of the layer's shape
fits(layer, w) ==
    /\ Len(w) = layer.out_features
    /\ \A r \in DOMAIN w : Len(w[r]) = layer.in_features

\* RowParallelLayer.load_weight
row_load_weight(w, world_size, rank) ==
    IF world_size > 1 THEN torch_chunk_cols(w, world_size)[rank + 1] ELSE w

\* MyLlamaMLP.load_state_dict: combined_weights, one fused gate/up weight per rank
combined_weights_chunk_after_cat(state_dict, world_size) ==
    torch_chunk(state_dict.gate_proj \o state_dict.up_proj, world_size)
combined_weights(state_dict, world_size) ==
    LET weight_chunks == <<torch_chunk(state_dict.gate_proj, world_size),
                           torch_chunk(state_dict.up_proj, world_size)>>
    IN [i \in 1..world_size |-> weight_chunks[1][i] \o weight_chunks[2][i]]

\* MyLlamaMLP on one rank: __init__, load_state_dict, and forward up to the
\* all-reduce
mlp_rank(state_dict, x, world_size, rank) ==
    LET inter == Len(state_dict.gate_proj)
        gate_up_proj == MergeParallelLayer(HiddenSize, inter, 2, world_size)
        down_proj == RowParallelLayer(inter, HiddenSize, world_size)
    IN IF ~gate_up_proj.ok \/ ~down_proj.ok
       THEN [raised |-> TRUE, gate_up |-> <<>>, down |-> <<>>, partial |-> <<>>]
       ELSE LET down_w == row_load_weight(state_dict.down_proj, world_size, rank)
                gate_up_w == combined_weights(state_dict, world_size)[rank + 1]
            IN IF ~fits(down_proj, down_w) \/ ~fits(gate_up_proj, gate_up_w)
               THEN [raised |-> TRUE, gate_up |-> <<>>, down |-> <<>>, partial |-> <<>>]
               ELSE LET node_output == linear(gate_up_w, x)
                        halves == torch_chunk(node_output, 2)
                        gate_out == halves[1]
                        up_out == halves[2]
                        intermediate_states ==
                            [i \in DOMAIN gate_out |-> act_fn(gate_out[i]) * up_out[i]]
                    IN [raised |-> FALSE, gate_up |-> gate_up_w, down |-> down_w,
                        partial |-> linear(down_w, intermediate_states)]

\* dist.all_reduce(x, op=SUM): every rank ends with the elementwise sum
all_reduce(parts) ==
    [o \in 1..HiddenSize |-> SumSeq([r \in DOMAIN parts |-> parts[r][o]])]

\* the MLP of a world of world_size ranks, each loading from the same state_dict
mlp(state_dict, x, world_size) ==
    LET ranks == [r \in 1..world_size |-> mlp_rank(state_dict, x, world_size, r - 1)]
    IN IF \E r \in DOMAIN ranks : ranks[r].raised
       THEN [raised |-> TRUE, shards |-> <<>>, out |-> <<>>]
       ELSE [raised |-> FALSE,
             shards |-> [r \in DOMAIN ranks |-> [gate_up |-> ranks[r].gate_up,
                                                 down |-> ranks[r].down]],
             out |-> all_reduce([r \in DOMAIN ranks |-> ranks[r].partial])]

\* MyLlamaMLP of benchmarks/ray_model.py: one gate, up and down actor per slice,
\* the driver concatenates, multiplies, splits again and sums
ray_mlp(state_dict, x, tp) ==
    IF Len(state_dict.gate_proj) % tp # 0
    THEN [raised |-> TRUE, shards |-> <<>>, out |-> <<>>]
    ELSE LET gate_list == torch_chunk(state_dict.gate_proj, tp)
             up_list == torch_chunk(state_dict.up_proj, tp)
             down_list == torch_chunk_cols(state_dict.down_proj, tp)
             gate_results == cat_func([i \in 1..tp |-> linear(gate_list[i], x)])
             up_out == cat_func([i \in 1..tp |-> linear(up_list[i], x)])
             intermediate_states ==
                 [i \in DOMAIN up_out |-> up_out[i] * act_fn(gate_results[i])]
             split_x_list == torch_chunk(intermediate_states, tp)
             results == [i \in 1..tp |-> linear(down_list[i], split_x_list[i])]
         IN [raised |-> FALSE,
             shards |-> [i \in 1..tp |-> [gate_up |-> gate_list[i] \o up_list[i],
                                          down |-> down_list[i]]],
             out |-> all_reduce(results)]

Matrices(rows, cols) == [1..rows -> [1..cols -> Weights]]

PureFrame ==
    UNCHANGED <<max_alive_time, owns_final, now, cache_dict, kv_heap, seq_input,
                request_cache, position_ids, attn_mask, layer_idx, kv_all, wb_idx,
                output, total, stale, call, pkv_dict, linkVars>>

\* a checkpoint, an input row and a world
InitMLP ==
    /\ Detached
    /\ NoLink
    /\ pc = "mlp"
    /\ kv_heap = [u \in UUIDS |-> NoList]
    /\ request_cache = EmptyDict
    /\ ret = <<>>
    /\ \E inter \in 1..MaxInter :
         call \in [gate_proj : Matrices(inter, HiddenSize),
                   up_proj : Matrices(inter, HiddenSize),
                   down_proj : Matrices(HiddenSize, inter),
                   x : [1..HiddenSize -> Weights],
                   world_size : 1..MaxWorld]

\* every rank builds its MyLlamaMLP, loads its slices and runs forward
CallMLP ==
    /\ pc = "mlp"
    /\ pc' = "mlp_done"
    /\ ret' = mlp([gate_proj |-> call.gate_proj, up_proj |-> call.up_proj,
                   down_proj |-> call.down_proj], call.x, call.world_size)
    /\ PureFrame

\* the same checkpoint and input through the MLP of benchmarks/ray_model.py
CallRayMLP ==
    /\ pc = "mlp"
    /\ pc' = "ray_done"
    /\ ret' = ray_mlp([gate_proj |-> call.gate_proj, up_proj |-> call.up_proj,
                       down_proj |-> call.down_proj], call.x, call.world_size)
    /\ PureFrame

NextMLP ==
    \/ CallMLP
    \/ CallRayMLP

SpecMLP == InitMLP /\ [][NextMLP]_vars

\* ---- the constructors of the parallel layers, called directly
\* MergeParallelLayer(row_size, col_size, dup_layer, world_size, rank),
\* QKVParallelLayer(row_size, col_size_list, world_size, rank) or
\* RowParallelLayer(row_size, col_size, world_size, rank)
InitLayers ==
    /\ Detached
    /\ NoLink
    /\ pc = "construct"
    /\ kv_heap = [u \in UUIDS |-> NoList]
    /\ request_cache = EmptyDict
    /\ ret = <<>>
    /\ \E n \in {1, 3} :
         call \in [cls : IF n = 3 THEN {"qkv"} ELSE {"merge", "row"},
                   row_size : 1..MaxInter,
                   col_size_list : [1..n -> 1..MaxInter],
                   dup_layer : IF n = 3 THEN {1} ELSE 1..2,
                   world_size : 1..MaxWorld]

ConstructMerge ==
    /\ pc = "construct"
    /\ call.cls = "merge"
    /\ pc' = "constructed"
    /\ ret' = MergeParallelLayer(call.row_size, call.col_size_list[1], call.dup_layer,
                                 call.world_size)
    /\ PureFrame

ConstructQKV ==
    /\ pc = "construct"
    /\ call.cls = "qkv"
    /\ pc' = "constructed"
    /\ ret' = QKVParallelLayer(call.row_size, call.col_size_list, call.world_size)
    /\ PureFrame

ConstructRow ==
    /\ pc = "construct"
    /\ call.cls = "row"
    /\ pc' = "constructed"
    /\ ret' = RowParallelLayer(call.row_size, call.col_size_list[1], call.world_size)
    /\ PureFrame

NextLayers ==
    \/ ConstructMerge
    \/ ConstructQKV
    \/ ConstructRow

SpecLayers == InitLayers /\ [][NextLayers]_vars

\* --------------------------------------------------- SequenceRequestData
\* largest sampling_params.n and largest number of generated tokens
MaxN == 2
MaxNew == 2

REQUEST_IDS == {"q1", "q2"}

TokenIds == {1, 2}

None == "None"

\* the text of a token id
decode(token) == IF token = 1 THEN "a" ELSE "b"

\* SequenceRequestData(request_id, sampling_params, input_ids) with __post_init__
SequenceRequestData(request_id, n, input_ids) ==
    [request_id |-> request_id,
     n |-> n,
     input_ids |-> input_ids,
     finish_reason_list |-> [i \in 1..n |-> None],
     output_ids |-> <<>>,
     output_text |-> <<>>,
     generate_ids |-> <<>>,
     generate_texts |-> <<>>,
     is_stop |-> FALSE]

CompletionOutput(index, text, token_ids, finish_reason) ==
    [index |-> index, text |-> text, token_ids |-> token_ids,
     finish_reason |-> finish_reason]

RequestOutput(request_id, prompt_token_ids, outputs, finished) ==
    [raised |-> "", request_id |-> request_id, prompt |-> None,
     prompt_token_ids |-> prompt_token_ids, outputs |-> outputs,
     finished |-> finished, prompt_logprobs |-> None]

IndexError ==
    [raised |-> "IndexError", request_id |-> "", prompt |-> None,
     prompt_token_ids |-> <<>>, outputs |-> <<>>, finished |-> FALSE,
     prompt_logprobs |-> None]

\* input_ids.tolist(): the elements of the tensor as a list of ints
tolist(t) == [i \in 1..Len(t) |-> t[i]]

\* SequenceRequestData.to_request_output; index runs over range(n), and the
\* lists are indexed from 0
to_request_output(self) ==
    IF ~self.is_stop
    THEN IF \E index \in 0..(self.n - 1) :
               index >= Len(self.generate_texts) \/ index >= Len(self.generate_ids)
         THEN IndexError
         ELSE RequestOutput(self.request_id, tolist(self.input_ids),
                            [i \in 1..self.n |->
                               CompletionOutput(i - 1, self.generate_texts[i],
                                                self.generate_ids[i],
                                                self.finish_reason_list[i])],
                            self.is_stop)
    ELSE RequestOutput(self.request_id, tolist(self.input_ids),
                       [i \in 1..self.n |->
                          CompletionOutput(i - 1, self.output_text, self.output_ids,
                                           self.finish_reason_list[i])],
                       TRUE)

\* the coordinator after a step: one sampled token per sample of the request,
\* appended to the request; the stop conditions are EOS ("stop") and the
\* token limit ("length")
sample_step(self, tokens, eos) ==
    LET ids == self.output_ids \o <<tokens[1]>>
        reason == IF eos THEN "stop"
                  ELSE IF Len(ids) >= MaxNew THEN "length" ELSE None
    IN [self EXCEPT
          !.generate_ids = [i \in 1..self.n |-> <<tokens[i]>>],
          !.generate_texts = [i \in 1..self.n |-> decode(tokens[i])],
          !.output_ids = ids,
          !.output_text = self.output_text \o <<decode(tokens[1])>>,
          !.finish_reason_list = [i \in 1..self.n |-> reason],
          !.is_stop = (reason # None)]

RequestFrame ==
    UNCHANGED <<max_alive_time, owns_final, now, cache_dict, kv_heap, pc, seq_input,
                request_cache, position_ids, attn_mask, layer_idx, kv_all, wb_idx,
                output, total, stale, call, pkv_dict, coordVars, clientVars, rpcVars,
                pendVars>>

\* a request is created at admission
InitRequest ==
    /\ Detached
    /\ NoCoordinator
    /\ NoClient
    /\ NoRPC
    /\ NoPending
    /\ pc = "request"
    /\ kv_heap = [u \in UUIDS |-> NoList]
    /\ request_cache = EmptyDict
    /\ call = <<>>
    /\ ret = <<>>
    /\ \E request_id \in REQUEST_IDS, n \in 1..MaxN, len \in 1..2 :
         \E input_ids \in [1..len -> TokenIds] :
            req = SequenceRequestData(request_id, n, input_ids)

\* the coordinator mutates the request after a step
SampleStep ==
    /\ pc = "request"
    /\ ~req.is_stop
    /\ \E tokens \in [1..req.n -> TokenIds], eos \in BOOLEAN :
         req' = sample_step(req, tokens, eos)
    /\ ret' = <<>>
    /\ RequestFrame

\* a consumer asks for the request's output
ToRequestOutput ==
    /\ pc = "request"
    /\ ret' = to_request_output(req)
    /\ UNCHANGED req
    /\ RequestFrame

NextRequest ==
    \/ SampleStep
    \/ ToRequestOutput

SpecRequest == InitRequest /\ [][NextRequest]_vars

\* ------------------------------------ Forward with any list of request ids
\* The batches a Forward request may carry when the ids are not required to
\* differ: up to two entries, each with a segment of 1..MaxSeg rows
AnyBatches ==
    UNION {{[uuid_list |-> ul, seq_len_list |-> sl] :
              sl \in [1..Len(ul) -> 1..MaxSeg]} :
             ul \in UNION {[1..n -> UUIDS] : n \in 1..2}}

\* build_forward_cache on such a batch
ForwardBuildAny ==
    /\ pc = "idle"
    /\ \E si \in AnyBatches :
         /\ \A i \in DOMAIN si.uuid_list :
               stored_len(cache_dict, si.uuid_list[i]) + SumSeq(si.seq_len_list) <= MaxLen
         /\ LET b == build_forward_cache(si, cache_dict, kv_heap)
                m == mlx_build_forward_cache(si, cache_dict)
            IN /\ seq_input' = si
               /\ request_cache' = b.request_cache
               /\ kv_heap' = b.heap
               /\ position_ids' = b.position_ids
               /\ attn_mask' = m.attn_mask
               /\ total' = [u \in UUIDS |->
                              IF \E i \in DOMAIN si.uuid_list : si.uuid_list[i] = u
                              THEN (IF u \in DOMAIN cache_dict THEN total[u] ELSE 0)
                                   + SumSeq([i \in DOMAIN si.uuid_list |->
                                               IF si.uuid_list[i] = u
                                               THEN si.seq_len_list[i] ELSE 0])
                              ELSE total[u]]
               /\ stale' = {}
    /\ layer_idx' = 1
    /\ pc' = "layers"
    /\ output' = <<>>
    /\ UNCHANGED <<max_alive_time, owns_final, now, cache_dict, kv_all, wb_idx, otherVars>>

\* the worker with a clock that stands still: nothing is ever over age
NextAnyBatch ==
    \/ ForwardBuildAny
    \/ LayerStep
    \/ LayersDone
    \/ WriteBackSet
    \/ WriteBackCheckAlive
    \/ Return

SpecAnyBatch == Init /\ [][NextAnyBatch]_vars

\* ------------------------------------ RPCManager.forward: pending requests
\* Request ids are strings; a string is the sequence of its characters.
Chars == {"a", "-"}

\* longest request id
MaxIdLen == 2

\* most requests in a batch
MaxBatch == 2

\* the request ids a step may carry
RequestIds == UNION {[1..n -> Chars] : n \in 1..MaxIdLen}

\* SeqInput.uuid_list of a dispatched step: distinct request ids in order
IdLists ==
    UNION {{q \in [1..n -> RequestIds] : \A i, j \in 1..n : i # j => q[i] # q[j]} :
             n \in 1..MaxBatch}

\* the forward calls the coordinator may have running at once
STEPS == {"s1", "s2"}

\* sep.join(strings)
RECURSIVE join(_, _)
join(sep, strings) ==
    IF strings = <<>>
    THEN <<>>
    ELSE IF Len(strings) = 1
    THEN Head(strings)
    ELSE Head(strings) \o sep \o join(sep, Tail(strings))

\* the key forward hands to add_request: "-".join(x for x in seq_input.uuid_list)
pending_key(uuid_list) == join(<<"-">>, uuid_list)

\* PendingRequests.add_request(key, pp_size): the futures created for the
\* calling step are stored under key
add_request(pr, key, step) ==
    [k \in DOMAIN pr \cup {key} |-> IF k = key THEN step ELSE pr[k]]

\* a forward call: where it is, its batch, whether the workers have answered
\* it, and whose reply its future was completed with
Step(at, uuid_list, answered, reply) ==
    [pc |-> at, uuid_list |-> uuid_list, answered |-> answered, output |-> reply]

InitPending ==
    /\ Detached
    /\ pc = "pending"
    /\ kv_heap = [u \in UUIDS |-> NoList]
    /\ request_cache = EmptyDict
    /\ call = <<>>
    /\ ret = <<>>
    /\ NoCoordinator
    /\ NoClient
    /\ NoRPC
    /\ NoRequest
    /\ pending_requests = <<>>
    /\ in_flight = [s \in STEPS |-> Step("none", <<>>, FALSE, "")]

PendingFrame ==
    UNCHANGED <<max_alive_time, owns_final, now, cache_dict, kv_heap, pc, seq_input,
                request_cache, position_ids, attn_mask, layer_idx, kv_all, wb_idx,
                output, total, stale, call, ret, pkv_dict, coordVars, clientVars,
                rpcVars, req>>

\* RPCManager.forward up to its first await: the step is registered under its
\* key and sent to the first worker.  A batch differs from every batch that
\* is still waiting for its reply.
DispatchStep ==
    /\ pc = "pending"
    /\ \E s \in STEPS, uuid_list \in IdLists :
         /\ in_flight[s].pc = "none"
         /\ \A t \in STEPS : in_flight[t].pc = "waiting" =>
                                in_flight[t].uuid_list # uuid_list
         /\ pending_requests' = add_request(pending_requests, pending_key(uuid_list), s)
         /\ in_flight' = [in_flight EXCEPT ![s] = Step("waiting", uuid_list, FALSE, "")]
    /\ PendingFrame

\* The last worker's reply for step t reaches the coordinator: the futures
\* stored under the key of t's request ids are completed with it, and the
\* forward call that awaits them returns it.
DeliverReply ==
    /\ pc = "pending"
    /\ \E t \in STEPS :
         /\ in_flight[t].pc # "none"
         /\ ~in_flight[t].answered
         /\ LET key == pending_key(in_flight[t].uuid_list)
            IN /\ key \in DOMAIN pending_requests
               /\ LET owner == pending_requests[key]
                  IN in_flight' =
                       [s \in STEPS |->
                          LET a == IF s = t THEN [in_flight[s] EXCEPT !.answered = TRUE]
                                   ELSE in_flight[s]
                          IN IF s = owner
                             THEN [a EXCEPT !.pc = "returned", !.output = t]
                             ELSE a]
               /\ pending_requests' =
                    [k \in DOMAIN pending_requests \ {key} |-> pending_requests[k]]
    /\ PendingFrame

NextPending ==
    \/ DispatchStep
    \/ DeliverReply

SpecPending == InitPending /\ [][NextPending]_vars

\* ================================================================ claims
InFlight == pc \in {"layers", "set", "check_alive"}

StepDone == pc \in {"return", "idle"}

BatchIds == Range(seq_input.uuid_list)

\* cached length of request u at layer l (0-based) in the list the manager holds
cached_len(cd, heap, u, l) == KVLen(heap[cd[u].cache][l + 1])

C4_LayersEqualLength ==
    StepDone =>
       \A u \in DOMAIN cache_dict :
          \A l1, l2 \in 0..(NumLayers - 1) :
             cached_len(cache_dict, kv_heap, u, l1) = cached_len(cache_dict, kv_heap, u, l2)

\* C4 witness: a step over two requests has returned and both hold rows at the
\* last owned layer, one of them from more than one step.
C4_Witness ==
    /\ pc = "return"
    /\ Len(seq_input.uuid_list) = 2
    /\ \A u \in BatchIds :
          u \in DOMAIN cache_dict /\ cached_len(cache_dict, kv_heap, u, NumLayers - 1) > 0
    /\ \E u \in BatchIds : cache_dict[u].seq_len > request_cache[u].seq_len

\* ---- direct calls of update: the call's own view
CallSeg(i) == request_cache[call.uuid_list[i]].seq_len

CallOffset(i) == SumSeq([j \in 1..(i - 1) |-> CallSeg(j)])

CallOld(i) == call.heap[call.uuid_list[i]][call.layer_idx + 1]

CallNew(i) == kv_heap[call.uuid_list[i]][call.layer_idx + 1]

AllRegistered == \A i \in DOMAIN call.uuid_list : call.uuid_list[i] \in DOMAIN request_cache

\* the call the attention makes: registered ids, each once, and packed K and V
\* with one row per token of the batch
WellFormedCall ==
    /\ call.uuid_list # <<>>
    /\ AllRegistered
    /\ \A i, j \in DOMAIN call.uuid_list : i # j => call.uuid_list[i] # call.uuid_list[j]
    /\ Len(call.key_states) = SumSeq([i \in DOMAIN call.uuid_list |-> CallSeg(i)])
    /\ Len(call.value_states) = Len(call.key_states)

\* C1: after RequestsCache.update(K_new, V_new, uuid_list, layer_idx), every
\* request of uuid_list has, at layer_idx, its cached length before the call
\* plus the segment length add() recorded for it.
C1_UpdateGrowsBySegment ==
    (pc = "returned" /\ WellFormedCall) =>
       \A i \in DOMAIN call.uuid_list :
          get_cache_seq_len(request_cache, kv_heap, call.uuid_list[i], call.layer_idx)
            = get_cache_seq_len(request_cache, call.heap, call.uuid_list[i], call.layer_idx)
              + get_seq_len(request_cache, call.uuid_list[i])

\* C1 witness: update has returned for a batch of two requests, one with rows
\* already cached at the layer and one with none, with different segment lengths.
C1_Witness ==
    /\ pc = "returned"
    /\ WellFormedCall
    /\ Len(call.uuid_list) = 2
    /\ Len(CallOld(1).key_states) > 0
    /\ Len(CallOld(2).key_states) = 0
    /\ CallSeg(1) # CallSeg(2)
    /\ ~ret.raised

\* C3: update returns, in uuid_list order, every request's full cache at the
\* layer (old rows then the new slice); the leading dimension is the sum of
\* old length + segment length; request i receives exactly the packed rows
\* [sum of earlier segments, + its segment).
C3_UpdateReturnsFullCachesInOrder ==
    (pc = "returned" /\ WellFormedCall) =>
       /\ ~ret.raised
       /\ ret.key = cat_func([i \in DOMAIN call.uuid_list |-> CallNew(i).key_states])
       /\ ret.value = cat_func([i \in DOMAIN call.uuid_list |-> CallNew(i).value_states])
       /\ Len(ret.key) = SumSeq([i \in DOMAIN call.uuid_list |->
                                   Len(CallOld(i).key_states) + CallSeg(i)])
       /\ Len(ret.value) = Len(ret.key)
       /\ \A i \in DOMAIN call.uuid_list :
             /\ CallNew(i).key_states =
                  CallOld(i).key_states
                    \o SubSeq(call.key_states, CallOffset(i) + 1, CallOffset(i) + CallSeg(i))
             /\ CallNew(i).value_states =
                  CallOld(i).value_states
                    \o SubSeq(call.value_states, CallOffset(i) + 1, CallOffset(i) + CallSeg(i))

\* C3 witness: a well-formed call over two requests that both had rows cached
\* and both bring new rows has returned.
C3_Witness ==
    /\ pc = "returned"
    /\ WellFormedCall
    /\ Len(call.uuid_list) = 2
    /\ \A i \in DOMAIN call.uuid_list : Len(CallOld(i).key_states) > 0 /\ CallSeg(i) > 0
    /\ Len(ret.key) > Len(call.key_states)

\* C7 (as claimed): an update call whose packed leading dimension differs from
\* the sum of the segment lengths, or that names an unregistered request,
\* raises and leaves every cache of every layer as it was.
C7_BadCallFailsCachesIntact ==
    (/\ pc = "returned"
     /\ \/ ~AllRegistered
        \/ /\ AllRegistered
           /\ Len(call.key_states) # SumSeq([i \in DOMAIN call.uuid_list |-> CallSeg(i)]))
    => (ret.raised /\ kv_heap = call.heap)

\* ---- CacheManager called directly
\* entries of cd whose age at time t is strictly greater than alive
Expired(cd, t, alive) == {k \in DOMAIN cd : t - cd[k].ts > alive}

\* the step a manager's dictionary takes when check_alive ran on it
SweptExactly(cd, cdNext) ==
    /\ DOMAIN cdNext = DOMAIN cd \ Expired(cd, now, max_alive_time)
    /\ \A k \in DOMAIN cdNext : cdNext[k] = cd[k]

\* an entry's timestamp is new or differs only after set ran on that key
TsOnlyBySet(cd, cdNext, on) ==
    \A k \in DOMAIN cdNext :
       (k \notin DOMAIN cd \/ cd[k].ts # cdNext[k].ts) =>
          (ret'.op = "set" /\ ret'.on = on /\ ret'.key = k)

C5_InFlightEntriesNotEvicted ==
    [][InFlight =>
          \A u \in BatchIds : u \in DOMAIN cache_dict => u \in DOMAIN cache_dict']_vars

\* C6 (as claimed): a Forward step that carries a request whose entry had been
\* idle for longer than max_alive_time when the step began does not run to
\* completion and return hidden states.
C6_StaleRequestRejected == (pc = "return") => (stale = {})

\* ---- Forward steps: the attention context built by build_forward_cache
\* a step of ForwardBuild
Built == pc = "idle" /\ pc' = "layers"

\* rows cached for request u at layer 0 before the step (0 for a new request)
PrevLen(u) == IF u \in DOMAIN cache_dict THEN cached_len(cache_dict, kv_heap, u, 0) ELSE 0

QLen(si, i) == si.seq_len_list[i]

KLen(si, i) == PrevLen(si.uuid_list[i]) + QLen(si, i)

QStart(si, i) == SumSeq([j \in 1..(i - 1) |-> QLen(si, j)])

KStart(si, i) == SumSeq([j \in 1..(i - 1) |-> KLen(si, j)])

\* every request of the batch that is already cached brings one row
CachedBringOne(si) ==
    \A i \in DOMAIN si.uuid_list : si.uuid_list[i] \in DOMAIN cache_dict => QLen(si, i) = 1

\* positions PrevLen, PrevLen + 1, ... for each request in batch order
ExpectedPositions(si) ==
    cat_func([i \in DOMAIN si.uuid_list |->
                [o \in 1..QLen(si, i) |-> PrevLen(si.uuid_list[i]) + o - 1]])

PositionsRight(si, pos) ==
    /\ Len(pos) = SumSeq(si.seq_len_list)
    /\ pos = ExpectedPositions(si)

\* C9 (as claimed): position_ids has one entry per packed row, 0..q-1 for a new
\* request and PrevLen.. for a cached one, for every batch.
C9_PositionsForEveryBatch ==
    [][Built => PositionsRight(seq_input', position_ids')]_vars

\* C9 (amended): the same, for every batch in which each cached request has
\* segment length 1.
C9_PositionsWhenCachedBringOne ==
    [][(Built /\ CachedBringOne(seq_input')) => PositionsRight(seq_input', position_ids')]_vars

\* C9 witness: the context was just built for a batch that mixes a cached
\* request (one row, at its cached length) with a new request of several rows.
C9_Witness ==
    /\ pc = "layers"
    /\ layer_idx = 1
    /\ CachedBringOne(seq_input)
    /\ \E i, j \in DOMAIN seq_input.uuid_list :
          /\ seq_input.uuid_list[i] \in DOMAIN cache_dict
          /\ cache_dict[seq_input.uuid_list[i]].seq_len > 1
          /\ seq_input.uuid_list[j] \notin DOMAIN cache_dict
          /\ seq_input.seq_len_list[j] > 1
    /\ Len(position_ids) = SumSeq(seq_input.seq_len_list)

\* query row r of the packed batch belongs to batch slot i
QueryIn(si, r, i) == QStart(si, i) < r /\ r <= QStart(si, i) + QLen(si, i)

\* key row c of the packed K_all belongs to batch slot i
KeyIn(si, c, i) == KStart(si, i) < c /\ c <= KStart(si, i) + KLen(si, i)

\* same request, and the key's absolute position is at most the query's
Causal(si, r, c) ==
    \E i \in DOMAIN si.uuid_list :
       /\ QueryIn(si, r, i)
       /\ KeyIn(si, c, i)
       /\ c - KStart(si, i) - 1 <= PrevLen(si.uuid_list[i]) + (r - QStart(si, i) - 1)

MaskShape(si, mask) ==
    /\ DOMAIN mask = 1..SumSeq(si.seq_len_list)
    /\ \A r \in DOMAIN mask :
          DOMAIN mask[r] = 1..SumSeq([i \in DOMAIN si.uuid_list |-> KLen(si, i)])

\* allowed entries are causal entries of the same request
MaskOnlyCausal(si, mask) ==
    \A r \in DOMAIN mask : \A c \in DOMAIN mask[r] : mask[r][c] = Zero => Causal(si, r, c)

\* every causal entry of the same request is allowed
MaskAllCausal(si, mask) ==
    \A r \in DOMAIN mask : \A c \in DOMAIN mask[r] : Causal(si, r, c) => mask[r][c] = Zero

\* C10 (as claimed): for every batch, a query row may attend to a key row if
\* and only if the key is of the same request and not after the query.
C10_MaskIffCausalForEveryBatch ==
    [][Built => /\ MaskShape(seq_input', attn_mask')
                /\ MaskOnlyCausal(seq_input', attn_mask')
                /\ MaskAllCausal(seq_input', attn_mask')]_vars

\* C10 (amended): for every batch an allowed key is of the same request and
\* not after the query; the converse holds for every batch in which each
\* cached request has segment length 1.
C10_MaskCausalIffWhenCachedBringOne ==
    [][Built => /\ MaskShape(seq_input', attn_mask')
                /\ MaskOnlyCausal(seq_input', attn_mask')
                /\ CachedBringOne(seq_input') => MaskAllCausal(seq_input', attn_mask')]_vars

\* C10 witness: the mask was just built for a cached request bringing one row
\* next to a new request of several rows; it has allowed and masked entries.
C10_Witness ==
    /\ pc = "layers"
    /\ layer_idx = 1
    /\ CachedBringOne(seq_input)
    /\ \E i, j \in DOMAIN seq_input.uuid_list :
          /\ seq_input.uuid_list[i] \in DOMAIN cache_dict
          /\ seq_input.uuid_list[j] \notin DOMAIN cache_dict
          /\ seq_input.seq_len_list[j] > 1
    /\ \E r \in DOMAIN attn_mask : \E c1, c2 \in DOMAIN attn_mask[r] :
          attn_mask[r][c1] = Zero /\ attn_mask[r][c2] = NegInf

\* ---- Forward steps: a request that brings one row
AllOnes(L, S) == [i \in 1..L |-> [j \in 1..S |-> TRUE]]

\* the slot's only query row may attend to exactly the slot's own keys
RowSeesOwnKeys(si, mask, i) ==
    LET r == QStart(si, i) + 1
    IN /\ r \in DOMAIN mask
       /\ \A c \in DOMAIN mask[r] : (mask[r][c] = Zero) <=> KeyIn(si, c, i)
       /\ Cardinality({c \in DOMAIN mask[r] : mask[r][c] = Zero})
            = PrevLen(si.uuid_list[i]) + 1

\* C11: a request whose segment length is 1 gets no triangular cut (its block
\* is all ones, and the attention's is_causal flag is off), and its single
\* query row attends to all keys of the same request: the rows cached before
\* the step plus the row the step appends.
C11_SingleRowSeesAllOwnKeys ==
    [][Built =>
          \A i \in DOMAIN seq_input'.uuid_list :
             QLen(seq_input', i) = 1 =>
                /\ block_mask(1, KLen(seq_input', i)) = AllOnes(1, KLen(seq_input', i))
                /\ sdpa_allowed(1, KLen(seq_input', i), sdpa_is_causal(1))
                     = AllOnes(1, KLen(seq_input', i))
                /\ RowSeesOwnKeys(seq_input', attn_mask', i)]_vars

\* C11 witness: the mask was just built for a batch of two requests in which
\* the second is cached with at least two rows and brings one row.
C11_Witness ==
    /\ pc = "layers"
    /\ layer_idx = 1
    /\ Len(seq_input.uuid_list) = 2
    /\ seq_input.uuid_list[2] \in DOMAIN cache_dict
    /\ cache_dict[seq_input.uuid_list[2]].seq_len >= 2
    /\ seq_input.seq_len_list[2] = 1
    /\ LET r == seq_input.seq_len_list[1] + 1
       IN Cardinality({c \in DOMAIN attn_mask[r] : attn_mask[r][c] = Zero}) >= 3

\* ---- Forward steps: the hidden states returned
\* C12: a worker that owns the final layer returns one row per request, in
\* request order, each the last row of that request's segment of the packed
\* batch; a worker that does not returns every packed row.
C12_LastRowPerRequest ==
    (pc = "return") =>
       IF owns_final
       THEN /\ Len(output) = Len(seq_input.uuid_list)
            /\ \A i \in DOMAIN seq_input.uuid_list :
                  output[i] = hidden_rows(seq_input)[QStart(seq_input, i) + QLen(seq_input, i)]
       ELSE /\ Len(output) = SumSeq(seq_input.seq_len_list)
            /\ output = hidden_rows(seq_input)

\* C12 witness: a final-layer worker has finished a step over two requests, the
\* first with a segment of several rows, and returns two rows.
C12_Witness ==
    /\ pc = "return"
    /\ owns_final
    /\ Len(seq_input.uuid_list) = 2
    /\ seq_input.seq_len_list[1] > 1
    /\ Len(output) = 2
    /\ output[1] = seq_input.seq_len_list[1]

\* ---- the membership manager
\* a register request of client c that carries no assignment
NoAssignment(c) ==
    [client_id |-> c, pp_rank |-> Unassigned, start_idx |-> Unassigned,
     end_idx |-> Unassigned]

\* the response is a success naming a rank of the manager with its range
ValidAssignment(resp) ==
    /\ resp.msg = "success"
    /\ resp.pp_rank \in Ranks
    /\ <<resp.start_idx, resp.end_idx>> = layer_info[resp.pp_rank + 1]

\* C13 (as claimed): in every state of the manager, register_client without an
\* assignment succeeds with a rank and its layer_info range, and the rank is
\* one whose count is zero whenever such a rank exists.
C13_RegisterPicksZeroCountRank ==
    (pc = "member") =>
       \A c \in CLIENTS, pick \in Ranks :
          LET r == register_client(Manager, NoAssignment(c), TRUE, pick)
          IN /\ ValidAssignment(r.resp)
             /\ ZeroRanks(client_info) # {} => client_info[r.resp.pp_rank + 1][3] = 0

\* C14 (as claimed): when has_full_model is true, register_client of a new
\* client without an assignment succeeds with a valid rank and range and
\* leaves connect_clients and client_info as they were, so has_full_model too.
C14_RegisterWhenFullKeepsCoverage ==
    (pc = "member" /\ has_full_model(Manager)) =>
       \A c \in CLIENTS \ DOMAIN clients, pick \in Ranks :
          LET r == register_client(Manager, NoAssignment(c), TRUE, pick)
          IN /\ ValidAssignment(r.resp)
             /\ r.st.connect_clients = connect_clients
             /\ r.st.client_info = client_info
             /\ has_full_model(r.st)

\* C15 (as claimed): unregister_client of a registered client removes its
\* descriptor and, when it had a rank, lowers exactly that rank's count by
\* one; of an unknown client it changes nothing.
C15_UnregisterDecrementsOwnRank ==
    (pc = "member") =>
       \A c \in CLIENTS :
          LET st2 == unregister_client(Manager, c)
          IN IF c \notin DOMAIN clients
             THEN st2 = Manager
             ELSE /\ DOMAIN st2.clients = DOMAIN clients \ {c}
                  /\ \A d \in DOMAIN st2.clients : st2.clients[d] = clients[d]
                  /\ clients[c].pp_rank # Unassigned =>
                        st2.client_info = bump_count(client_info, clients[c].pp_rank, 0 - 1)

\* the ranges of the path are pairwise disjoint and cover [0, TotalLayers)
PathTiles(path) ==
    /\ \A i, j \in DOMAIN path :
          i # j => \/ path[i].end_idx <= path[j].start_idx
                   \/ path[j].end_idx <= path[i].start_idx
    /\ \A l \in 0..(TotalLayers - 1) :
          \E i \in DOMAIN path : path[i].start_idx <= l /\ l < path[i].end_idx
    /\ \A i \in DOMAIN path :
          0 <= path[i].start_idx /\ path[i].start_idx < path[i].end_idx
             /\ path[i].end_idx <= TotalLayers

C17_FailedProbeRejected ==
    (pc = "member" /\ mgr = "network") =>
       \A request \in Requests, pick \in Ranks :
          LET r == register_client(Manager, request, FALSE, pick)
          IN /\ r.resp.msg = "ping failed"
             /\ r.resp.pp_rank = 0 - 1
             /\ r.resp.start_idx = 0 - 1
             /\ r.resp.end_idx = 0 - 1
             /\ r.st = Manager

\* C17 witness: a register_client of the network manager has just answered
\* 'ping failed' while other clients are registered and form a path.
C17_Witness ==
    /\ pc = "member"
    /\ mgr = "network"
    /\ ret # <<>>
    /\ ret.op = "register_client"
    /\ ret.msg = "ping failed"
    /\ connect_clients # <<>>
    /\ DOMAIN clients # CLIENTS

\* C18: init_client of a registered client records the requested pp_rank,
\* start_idx and end_idx on its descriptor, raises that rank's count by
\* exactly one and answers 200; of an unknown client it answers 499 'client
\* not found' and changes nothing.
C18_InitClientRecordsAndCounts ==
    (pc = "member") =>
       \A request \in Requests :
          request.pp_rank # Unassigned =>
             LET r == init_client(Manager, request)
             IN IF request.client_id \in DOMAIN clients
                THEN /\ r.resp.status = 200
                     /\ r.st.clients[request.client_id] =
                          ClientData(request.pp_rank, request.start_idx, request.end_idx)
                     /\ DOMAIN r.st.clients = DOMAIN clients
                     /\ \A d \in DOMAIN clients \ {request.client_id} :
                           r.st.clients[d] = clients[d]
                     /\ r.st.client_info = bump_count(client_info, request.pp_rank, 1)
                ELSE /\ r.resp.status = 499
                     /\ r.resp.msg = "client not found"
                     /\ r.st = Manager

\* C18 witness: init_client has just succeeded for a client that now holds the
\* last rank, and another init_client has an unknown client to refuse.
C18_Witness ==
    /\ pc = "member"
    /\ ret # <<>>
    /\ ret.op = "init_client"
    /\ ret.msg = "success"
    /\ client_size > 1
    /\ \E c \in DOMAIN clients :
          /\ clients[c].pp_rank = client_size - 1
          /\ client_info[client_size][3] = 1
    /\ DOMAIN clients # CLIENTS

\* ---- the worker's heartbeat loop
InEpisode == hb_trail # <<>> /\ hb_trail[1].ev = "missed"

Attempts == {i \in DOMAIN hb_trail : hb_trail[i].ev \in {"connect raised", "ping failed", "reconnected"}}

Reconnected == \E i \in Attempts : hb_trail[i].ev = "reconnected"

Exhausted == InEpisode /\ ~Reconnected /\ Cardinality(Attempts) >= max_retry_attempts

\* C19: after a missed ping the loop makes at most max_retry_attempts
\* reconnection attempts, exactly one sleep of retry_delay separates two
\* consecutive attempts, no attempt follows the one whose connect and follow-up
\* ping both succeeded, and once the attempts are used up the loop sleeps
\* ping_interval and pings again if is_running is true when the sleep returns.
C19_BoundedRetriesThenResume ==
    /\ [](InEpisode =>
            /\ Cardinality(Attempts) <= max_retry_attempts
            /\ \A i \in Attempts :
                 (\E j \in Attempts : j > i) =>
                    /\ hb_trail[i + 1] = Slept(retry_delay)
                    /\ i + 2 \in Attempts
            /\ \A i \in Attempts :
                 hb_trail[i].ev = "reconnected" =>
                    /\ \A j \in Attempts : j <= i
                    /\ hb_pc \notin {"connect", "follow_up_ping", "retry_delay"}
            /\ Exhausted =>
                 /\ hb_pc \in {"ping_interval", "ping", "done"}
                 /\ hb_pc # "ping_interval" => hb_trail[Len(hb_trail)] = Slept(ping_interval))
    /\ [][hb_pc = "ping_interval" /\ hb_pc' # "ping_interval" =>
            /\ hb_trail' = Append(hb_trail, Slept(ping_interval))
            /\ hb_pc' = IF is_running THEN "ping" ELSE "done"]_vars

\* two failed attempts a retry_delay apart used up the attempts, and the loop
\* is about to ping again
C19_Witness ==
    /\ Exhausted
    /\ Cardinality(Attempts) = 2
    /\ \E i \in DOMAIN hb_trail : hb_trail[i] = Slept(retry_delay)
    /\ ping_interval # retry_delay
    /\ hb_pc = "ping"
    /\ is_running

\* ---- RPCManager.forward
Waiting == fw_pc \in {"sleep", "wait_forward", "wait_status"}

\* C20: a call of forward always ends; a wait that finds the step's result
\* still missing when the hop timeout has passed ends the call with a timeout
\* error and no result; and a call that returns hands back the deserialized
\* value of the completed result future.
C20_ForwardEndsAndReturnsOnlyResults ==
    /\ Waiting ~> fw_pc = "ended"
    /\ [](Waiting => waited <= HopTimeout)
    /\ [][fw_pc = "wait_forward" /\ forward_future.state = "pending"
            /\ waited >= HopTimeout /\ fw_pc' # fw_pc =>
                /\ fw_pc' = "ended"
                /\ fw_ret' = Raise("TimeoutError")]_vars
    /\ [](fw_pc = "ended" /\ fw_ret.kind = "returned" =>
            /\ forward_future.state = "result"
            /\ fw_ret.hidden = deserialize_tensor(forward_future.value)
            /\ \E t \in Tensors :
                 /\ forward_future.value = serialize_tensor(t)
                 /\ fw_ret.hidden = t)

\* a call timed out waiting for the step's result
C20_Witness ==
    /\ fw_pc = "ended"
    /\ fw_ret.kind = "raised"
    /\ fw_ret.error = "TimeoutError"
    /\ forward_future.state = "cancelled"
    /\ status_future.state = "pending"
    /\ waited = HopTimeout

\* ---- the tensor-parallel MLP
\* down(act(gate(x)) * up(x)) with the unsharded weights
Unsharded(c) ==
    LET gate_out == linear(c.gate_proj, c.x)
        up_out == linear(c.up_proj, c.x)
    IN linear(c.down_proj, [i \in DOMAIN gate_out |-> act_fn(gate_out[i]) * up_out[i]])

\* rows from..to of the fused weight of each rank, one rank after the other
ShardRows(shards, first, size) ==
    cat_func([r \in DOMAIN shards |-> SubSeq(shards[r].gate_up, first, first + size - 1)])

\* C21: in MyLlamaMLP of commons/layers.py and of benchmarks/ray_model.py,
\* when world_size divides the intermediate size, the gate halves of the
\* ranks' fused weights put together are the gate weight, the up halves are
\* the up weight, the ranks' down slices side by side are the down weight, and
\* the all-reduced output equals the unsharded down(act(gate(x)) * up(x)).
C21_ShardedMLPEqualsUnsharded ==
    (pc \in {"mlp_done", "ray_done"} /\ Len(call.gate_proj) % call.world_size = 0) =>
        LET size == Len(call.gate_proj) \div call.world_size
        IN /\ ~ret.raised
           /\ Len(ret.shards) = call.world_size
           /\ ShardRows(ret.shards, 1, size) = call.gate_proj
           /\ ShardRows(ret.shards, size + 1, size) = call.up_proj
           /\ \A o \in DOMAIN call.down_proj :
                cat_func([r \in DOMAIN ret.shards |-> ret.shards[r].down[o]])
                    = call.down_proj[o]
           /\ ret.out = Unsharded(call)

\* two ranks with two intermediate rows each, gate and up weights that differ,
\* and an output that is not zero
C21_Witness ==
    /\ pc = "mlp_done"
    /\ call.world_size = 2
    /\ Len(call.gate_proj) = 4
    /\ call.gate_proj # call.up_proj
    /\ ~ret.raised
    /\ ret.out[1] # 0

\* ---- constructing a parallel layer
\* the sizes of the axis the class shards
ShardedSizes(c) ==
    IF c.cls = "row" THEN <<c.row_size>> ELSE c.col_size_list

\* C22: a constructor called with a sharded size that world_size does not
\* divide raises; a layer that is constructed has, on every rank, exactly
\* 1/world_size of each sharded size.
C22_IndivisibleAxisFails ==
    pc = "constructed" =>
        /\ (\E i \in DOMAIN ShardedSizes(call) : ShardedSizes(call)[i] % call.world_size # 0)
              => ret = AssertionError
        /\ ret.ok =>
              /\ call.cls = "merge" =>
                    ret.out_features * call.world_size = call.col_size_list[1] * call.dup_layer
              /\ call.cls = "qkv" =>
                    /\ ret.out_features * call.world_size = SumSeq(call.col_size_list)
                    /\ \A i \in DOMAIN call.col_size_list :
                         ret.col_size_list[i] * call.world_size = call.col_size_list[i]
              /\ call.cls = "row" =>
                    ret.in_features * call.world_size = call.row_size

\* a fused layer with an odd number of columns for two ranks was refused
C22_Witness ==
    /\ pc = "constructed"
    /\ call.cls = "merge"
    /\ call.world_size = 2
    /\ call.col_size_list[1] = 3
    /\ call.dup_layer = 2
    /\ ret = AssertionError

\* ---- the output of a request
\* C23: in every state of a request from creation to stop, to_request_output
\* returns the request's id, its prompt token ids, exactly n completions with
\* the indexes 0..n-1 and the finish reason of each sample, and finished equal
\* to is_stop.
C23_OutputInEveryState ==
    pc = "request" =>
        LET out == to_request_output(req)
        IN /\ out.raised = ""
           /\ out.request_id = req.request_id
           /\ out.prompt_token_ids = req.input_ids
           /\ Len(out.outputs) = req.n
           /\ \A i \in 1..req.n :
                /\ out.outputs[i].index = i - 1
                /\ out.outputs[i].finish_reason = req.finish_reason_list[i]
           /\ out.finished = req.is_stop

\* ---- Forward steps: the order of the layers
\* rows of request u cached at the layer list's position l
RowsAt(heap, u, l) == IF heap[u] = NoList THEN 0 ELSE Len(heap[u][l].key_states)

IsPrefix(s, t) == Len(s) <= Len(t) /\ SubSeq(t, 1, Len(s)) = s

\* C25: a call of update for layer_idx and uuid_list, whether it returns or
\* raises, leaves the caches of every other layer and of every request not in
\* uuid_list as they were, and at layer_idx the rows a listed request had
\* cached before the call are an unchanged prefix of its cache after it.
C25_UpdateAppendOnlyAndLocal ==
    pc = "returned" =>
        \A u \in UUIDS :
           IF call.heap[u] = NoList
           THEN kv_heap[u] = NoList
           ELSE /\ kv_heap[u] # NoList
                /\ \A l \in 1..NumLayers :
                     IF u \in Range(call.uuid_list) /\ l = call.layer_idx + 1
                     THEN /\ IsPrefix(call.heap[u][l].key_states, kv_heap[u][l].key_states)
                          /\ IsPrefix(call.heap[u][l].value_states, kv_heap[u][l].value_states)
                     ELSE kv_heap[u][l] = call.heap[u][l]

\* a call that appended to one request with cached rows while another
\* registered request with cached rows was not listed
C25_Witness ==
    /\ pc = "returned"
    /\ ~ret.raised
    /\ \E u, v \in DOMAIN request_cache :
         /\ u \in Range(call.uuid_list)
         /\ v \notin Range(call.uuid_list)
         /\ Len(call.heap[u][call.layer_idx + 1].key_states) > 0
         /\ Len(kv_heap[u][call.layer_idx + 1].key_states)
               > Len(call.heap[u][call.layer_idx + 1].key_states)
         /\ Len(call.heap[v][call.layer_idx + 1].key_states) > 0

\* what build_forward_cache would hand the attention for position_ids if it
\* treated exactly the absent ids as prefills (previous length 0) and the
\* others as continuations at their stored length
expected_position_ids(si, cd) ==
    cat_func([i \in DOMAIN si.uuid_list |->
                IF si.uuid_list[i] \in DOMAIN cd
                THEN <<cd[si.uuid_list[i]].seq_len>>
                ELSE arange(si.seq_len_list[i])])

\* the step that starts: a request absent from CacheManager gets fresh empty
\* per-layer caches, a present one the stored list and the stored length
PrefillIffAbsent ==
    (pc = "idle" /\ pc' = "layers") =>
        /\ position_ids' = expected_position_ids(seq_input', cache_dict)
        /\ \A u \in Range(seq_input'.uuid_list) :
              /\ request_cache'[u].cache = u
              /\ IF u \in DOMAIN cache_dict
                 THEN /\ cache_dict[u].cache = u
                      /\ kv_heap'[u] = kv_heap[u]
                      /\ KVLen(kv_heap'[u][1]) = cache_dict[u].seq_len
                 ELSE kv_heap'[u] = NewLayerList

\* the step that completes: every request of the batch has an entry
PresentAfterStep ==
    (pc = "return" /\ pc' = "idle") =>
        \A u \in Range(seq_input.uuid_list) : u \in DOMAIN cache_dict'

\* C26: a step treats a request as a prefill (fresh empty per-layer caches,
\* previous length 0) exactly when its id is absent from CacheManager when the
\* step starts and otherwise reuses the stored caches and length; and when a
\* step completes, every request id of its batch is present in CacheManager.
C26_PrefillIffAbsentThenPresent == [][PrefillIffAbsent /\ PresentAfterStep]_vars

\* the SetConfig requests that make the list `path` one chain ending at the
\* coordinator
chain_of(path, master_url) ==
    [i \in DOMAIN path |->
       SetConfigRequest(host_of(path[i].client_id),
                        IF i = Len(path) THEN master_url
                        ELSE host_of(path[i + 1].client_id),
                        master_url, i - 1)]

\* C27: a send_config call does not raise and, when it has returned, has sent
\* worker i of the path SetConfig with pp_rank = i, master_url = the
\* coordinator and forward_url = the host of worker i+1 (the coordinator for
\* the last worker); and right after set_connect_clients the stub of every
\* index i of the path targets connect_clients[i].host, whatever the length of
\* the path.
C27_SendConfigChainsPath ==
    /\ send_cfg.pc # "raised"
    /\ send_cfg.pc = "returned" => send_cfg.sent = chain_of(send_cfg.path, MasterUrl)
    /\ ret # <<>> /\ ret.op = "set_connect_clients" =>
          \A i \in DOMAIN connect_clients :
             /\ i \in DOMAIN stub_list
             /\ stub_list[i] = host_of(connect_clients[i].client_id)

\* the descriptors in clients that carry rank r
RankHolders(r) == {c \in DOMAIN clients : clients[c].pp_rank = r}

\* C28: whatever register_client, init_client and unregister_client calls have
\* run, the count of every rank in client_info equals the number of descriptors
\* in clients whose pp_rank is that rank, and no count is negative.
C28_CountsMatchDescriptors ==
    \A r \in Ranks :
       /\ client_info[r + 1][3] = Cardinality(RankHolders(r))
       /\ client_info[r + 1][3] >= 0

\* the members of the path whose client_id is no longer a key of clients
GoneFromPath ==
    {i \in DOMAIN connect_clients : connect_clients[i].client_id \notin DOMAIN clients}

\* C29: whatever register_client, unregister_client, set_connect_clients and
\* unset_connect_clients calls have run, every worker in connect_clients is a
\* registered client, so has_full_model is never true while a member of the
\* path has been unregistered.
C29_PathMembersRegistered ==
    /\ GoneFromPath = {}
    /\ has_full_model(Manager) => GoneFromPath = {}

\* the forward calls that wait for their reply
WaitingSteps == {s \in STEPS : in_flight[s].pc = "waiting"}

\* C30: two in-flight steps with different ordered request-id lists never
\* share a pending-request key, and a forward call only ever returns the reply
\* of its own step.
C30_PendingKeysDistinct ==
    /\ \A s, t \in WaitingSteps :
          in_flight[s].uuid_list # in_flight[t].uuid_list =>
             pending_key(in_flight[s].uuid_list) # pending_key(in_flight[t].uuid_list)
    /\ \A s \in STEPS : in_flight[s].pc = "returned" => in_flight[s].output = s

====
